---------------------------- MODULE Spec2Model ----------------------------
(***************************************************************************)
(* A model of the context-preparation pipeline of silent-na-trends         *)
(* (scripts/02_prepare_context.py): prepare (normalise + dedup),           *)
(* trend_score (global engagement z-score) and representative_sample       *)
(* (per-platform top-N).                                                   *)
(*                                                                         *)
(* Python values are modelled as TLA+ records whose field names carry the  *)
(* Python type, so values of different types can be compared:              *)
(*   None        [none |-> TRUE]                                           *)
(*   str         [s |-> <<"a", " ", "b">>]   (a sequence of characters)    *)
(*   int         [n |-> 5]                                                 *)
(*   float       [f |-> 2500]                (thousandths: 2.5)            *)
(*   inf         [inf |-> TRUE]                                            *)
(*   md5 digest  [md5 |-> <<...>>]           (see hash_text)               *)
(* A dict is a function from its keys to values; a key the dict does not   *)
(* have is simply not in its DOMAIN.                                       *)
(***************************************************************************)
EXTENDS Integers, Sequences, FiniteSets, Bags, TLC

VARIABLES
    raw,        \* the batch handed to the function under check (load_all())
    rows,       \* __main__'s rows: what prepare and trend_score return, what
                \* representative_sample and ngram_slang are given
    sample,     \* what representative_sample returns
    n_per_platform, \* the cap given to representative_sample
    bases,      \* trend_score's list of log1p(base), one per record
    pc,         \* the position of the program: "loaded" before a call, then
                \* a position named by the part that runs
    err,        \* the exception that ended the call, "" when none
    \* ngram_slang
    top_k,      \* the top_k handed to ngram_slang
    slang,      \* what ngram_slang returns
    \* md_to_docx (04_markdown_to_docx.py)
    md_text,    \* the markdown text handed to md_to_docx
    line_no,    \* the number of lines the loop has processed
    doc,        \* the document: its blocks in order
    bullet_mode, \* md_to_docx's bullet_mode
    \* 01_ingest.py __main__
    config,     \* how the three configuration files load
    fault,      \* for each source, how its ingest went in this run, "pending" before it
    per_source, \* the number of units (items, creators, feeds, term groups) of each source
    failing,    \* the units whose fetch fails in an adapter that catches a failure
    stale,      \* the source with a raw file of today from an earlier run, or ""
    nested,     \* the source whose upstream delivers values nested as deep as orjson.dumps takes in a row, "" when none
    raw_files,  \* data/raw: for each source, today's <source>_<date>.jsonl
    attempted,  \* the sources whose ingest has been called, in order
    all_json,   \* data/all_<date>.json
    \* ui_app.py: the runs started from the UI and the files of the scripts
    fs,         \* the files under data/: whether each exists, the RUN_ID that wrote it, whether it is empty
    presses,    \* for each RUN_ID, the number of step buttons pressed
    procs,      \* for each RUN_ID, the script its session runs or ran last
    accesses,   \* the files opened by the script each session runs or ran last
    started,    \* Run All: the steps started so far, in order
    running,    \* Run All: whether the script of the last started step is running
    failed,     \* Run All: the step whose script exited non-zero, "" when none
    progress,   \* the text of the progress bar
    \* 01_ingest.py: build_and_fetch of ingest_trends
    group,      \* the term group build_and_fetch is called with
    cache,      \* the cache entry of the group: absent, unreadable, or readable with its records
    attempt,    \* build_and_fetch's attempt: the failures counted so far
    fetches,    \* the requests sent to the trends service so far
    failures,   \* the exception of each failed request, in order
    result,     \* what build_and_fetch returned
    \* 03_generate_report.py: md_to_docx
    report_doc, \* the blocks of the document md_to_docx of 03_generate_report.py built
    \* 04_markdown_to_docx.py: __main__
    converter   \* the converter as a process: its RUN_ID, args.docx, and the md_path and docx_path it resolved

\* The variables of each part of the program; a part leaves the others'
\* variables alone.
prepVars == <<raw, sample, n_per_platform, bases>>
slangVars == <<top_k, slang>>
renderVars == <<md_text, line_no, doc, bullet_mode>>
ingestVars == <<config, fault, per_source, failing, stale, nested, raw_files, attempted, all_json>>
uiVars == <<fs, presses, procs, accesses, started, running, failed, progress>>
trendsVars == <<group, cache, attempt, fetches, failures, result>>
reportVars == <<report_doc>>
converterVars == <<converter>>

vars == <<raw, rows, sample, n_per_platform, bases, pc, err, slangVars, renderVars, ingestVars, uiVars, trendsVars, reportVars, converterVars>>

\* The variables of a part that is not running.
PrepIdle ==
    /\ raw = <<>>
    /\ sample = <<>>
    /\ n_per_platform = 0
    /\ bases = <<>>

SlangIdle ==
    /\ top_k = 0
    /\ slang = <<>>

RenderIdle ==
    /\ md_text = [none |-> TRUE]
    /\ line_no = 0
    /\ doc = <<>>
    /\ bullet_mode = FALSE

IngestIdle ==
    /\ config = "ok"
    /\ fault = <<>>
    /\ per_source = 0
    /\ failing = {}
    /\ stale = ""
    /\ nested = ""
    /\ raw_files = <<>>
    /\ attempted = <<>>
    /\ all_json = <<>>

UiIdle ==
    /\ fs = <<>>
    /\ presses = <<>>
    /\ procs = <<>>
    /\ accesses = {}
    /\ started = <<>>
    /\ running = FALSE
    /\ failed = ""
    /\ progress = [text |-> "Idle", tick |-> FALSE]

TrendsIdle ==
    /\ group = <<>>
    /\ cache = [state |-> "absent"]
    /\ attempt = 0
    /\ fetches = 0
    /\ failures = <<>>
    /\ result = <<>>

ReportIdle ==
    /\ report_doc = <<>>

ConverterIdle ==
    /\ converter = <<>>

\* What each part leaves alone.
laterVars == <<slangVars, renderVars, ingestVars, uiVars, trendsVars, reportVars, converterVars>>
LaterIdle == SlangIdle /\ RenderIdle /\ IngestIdle /\ UiIdle /\ TrendsIdle /\ ReportIdle /\ ConverterIdle
notSlangVars == <<prepVars, renderVars, ingestVars, uiVars, trendsVars, reportVars, converterVars>>
NotSlangIdle == PrepIdle /\ RenderIdle /\ IngestIdle /\ UiIdle /\ TrendsIdle /\ ReportIdle /\ ConverterIdle
notRenderVars == <<prepVars, rows, slangVars, ingestVars, uiVars, trendsVars, reportVars, converterVars>>
NotRenderIdle == PrepIdle /\ rows = <<>> /\ SlangIdle /\ IngestIdle /\ UiIdle /\ TrendsIdle /\ ReportIdle /\ ConverterIdle
notIngestVars == <<prepVars, rows, slangVars, renderVars, uiVars, trendsVars, reportVars, converterVars>>
NotIngestIdle == PrepIdle /\ rows = <<>> /\ SlangIdle /\ RenderIdle /\ UiIdle /\ TrendsIdle /\ ReportIdle /\ ConverterIdle
notUiVars == <<prepVars, rows, slangVars, renderVars, ingestVars, trendsVars, reportVars, converterVars>>
NotUiIdle == PrepIdle /\ rows = <<>> /\ SlangIdle /\ RenderIdle /\ IngestIdle /\ TrendsIdle /\ ReportIdle /\ ConverterIdle
notTrendsVars == <<prepVars, rows, slangVars, renderVars, ingestVars, uiVars, reportVars, converterVars>>
NotTrendsIdle == PrepIdle /\ rows = <<>> /\ SlangIdle /\ RenderIdle /\ IngestIdle /\ UiIdle /\ ReportIdle /\ ConverterIdle
notReportVars == <<prepVars, rows, slangVars, renderVars, ingestVars, uiVars, trendsVars, converterVars>>
NotReportIdle == PrepIdle /\ rows = <<>> /\ SlangIdle /\ RenderIdle /\ IngestIdle /\ UiIdle /\ TrendsIdle /\ ConverterIdle

-----------------------------------------------------------------------------
(* Python values *)

None == [none |-> TRUE]
PyStr(chars) == [s |-> chars]
PyInt(k) == [n |-> k]
PyFloat(thousandths) == [f |-> thousandths]
PyInf == [inf |-> TRUE]

IsNone(v) == DOMAIN v = {"none"}
IsStr(v) == DOMAIN v = {"s"}
IsInt(v) == DOMAIN v = {"n"}
IsFloat(v) == DOMAIN v = {"f"}
IsInf(v) == DOMAIN v = {"inf"}

EmptyStr == PyStr(<<>>)

\* Python truthiness, as `or` tests it.
Truthy(v) ==
    IF IsNone(v) THEN FALSE
    ELSE IF IsStr(v) THEN Len(v.s) > 0
    ELSE IF IsInt(v) THEN v.n # 0
    ELSE IF IsFloat(v) THEN v.f # 0
    ELSE TRUE

\* a or b
Or(a, b) == IF Truthy(a) THEN a ELSE b

\* r.get(k)
Get(r, k) == IF k \in DOMAIN r THEN r[k] ELSE None

\* r.get(k, d)
GetDefault(r, k, d) == IF k \in DOMAIN r THEN r[k] ELSE d

-----------------------------------------------------------------------------
(* norm_text, hash_text *)

\* \s of the regular expression, over the characters the model uses.
IsSpace(c) == c \in {" ", "\t", "\n"}

\* re.sub(r"\s+", " ", t): every maximal run of whitespace becomes one space.
RECURSIVE CollapseWs(_)
CollapseWs(t) ==
    IF t = <<>> THEN <<>>
    ELSE IF IsSpace(Head(t))
         THEN IF Len(t) > 1 /\ IsSpace(t[2])
              THEN CollapseWs(Tail(t))
              ELSE <<" ">> \o CollapseWs(Tail(t))
         ELSE <<Head(t)>> \o CollapseWs(Tail(t))

RECURSIVE LStrip(_)
LStrip(t) == IF t # <<>> /\ IsSpace(Head(t)) THEN LStrip(Tail(t)) ELSE t

RECURSIVE RStrip(_)
RStrip(t) ==
    IF t # <<>> /\ IsSpace(t[Len(t)]) THEN RStrip(SubSeq(t, 1, Len(t) - 1)) ELSE t

\* str.strip()
Strip(t) == RStrip(LStrip(t))

\* An exception leaving a call.
Raise(kind) == [raise |-> kind]
IsRaise(v) == DOMAIN v = {"raise"}

\* norm_text(t): re.sub(r"\s+", " ", (t or "")).strip().  re.sub raises
\* TypeError when (t or "") is not a str.
norm_text(t) ==
    LET u == Or(t, EmptyStr)
    IN  IF IsStr(u) THEN PyStr(Strip(CollapseWs(u.s))) ELSE Raise("TypeError")

\* hash_text(t): the md5 hex digest of the normalised text.  The digest is
\* modelled as an injective tag over the digested text (md5 taken as
\* collision-free, and a digest never equal to a url).
hash_text(t) ==
    LET u == norm_text(t)
    IN  IF IsRaise(u) THEN u ELSE [md5 |-> u.s]

\* str.lower(), over the characters the model uses.
LowerChar(c) ==
    CASE c = "X" -> "x"
      [] c = "R" -> "r"
      [] c = "A" -> "a"
      [] OTHER -> c

Lower(v) == PyStr([i \in 1..Len(v.s) |-> LowerChar(v.s[i])])

-----------------------------------------------------------------------------
(* prepare *)

\* key = url or hash_text(r.get("text") or r.get("title") or "")
dedup_key(r) ==
    LET url == Get(r, "url")
    IN  IF Truthy(url)
        THEN url
        ELSE hash_text(Or(Or(Get(r, "text"), Get(r, "title")), EmptyStr))

\* A prepare that never finds a key in `seen` (no dedup).
KeySeen_never(key, seen) == FALSE

\* key in seen
KeySeen(key, seen) == key \in seen

\* A prepare that lower-cases r.get("platform") without the `or ""`.
lower_platform_no_default(r) ==
    LET p == Get(r, "platform")
    IN  IF IsStr(p) THEN Lower(p) ELSE Raise("AttributeError")

\* (r.get("platform") or "").lower(): AttributeError when the value is
\* truthy and not a str.
lower_platform(r) ==
    LET p == Or(Get(r, "platform"), EmptyStr)
    IN  IF IsStr(p) THEN Lower(p) ELSE Raise("AttributeError")

\* The dict prepare appends for a surviving record; its entries are
\* evaluated in order, so the first one that raises decides the exception.
clean(r) ==
    LET platform == lower_platform(r)
        title == norm_text(Or(Get(r, "title"), EmptyStr))
        text == norm_text(Or(Or(Get(r, "text"), Get(r, "caption")), EmptyStr))
    IN  IF IsRaise(platform) THEN platform
        ELSE IF IsRaise(title) THEN title
        ELSE IF IsRaise(text) THEN text
        ELSE [platform |-> platform,
              ts |-> Get(r, "ts"),
              author |-> Or(Or(Get(r, "author"), Get(r, "subreddit")), EmptyStr),
              url |-> Get(r, "url"),
              title |-> title,
              text |-> text,
              likes |-> Get(r, "likes"),
              comments |-> Get(r, "comments"),
              shares |-> Get(r, "shares"),
              hashtags |-> Get(r, "hashtags"),
              tag |-> Get(r, "tag"),
              term |-> Get(r, "term"),
              value |-> Get(r, "value")]

\* The loop of prepare from record i on, with the keys seen and the records
\* kept so far.  The result is [err, rows]: err is "" and rows the cleaned
\* list, or err names the exception that left the loop.
RECURSIVE PrepareLoop(_, _, _, _)
PrepareLoop(rs, i, seen, cleaned) ==
    IF i > Len(rs) THEN [err |-> "", rows |-> cleaned]
    ELSE LET key == dedup_key(rs[i])
         IN  IF IsRaise(key) THEN [err |-> key.raise, rows |-> <<>>]
             ELSE IF KeySeen(key, seen) THEN PrepareLoop(rs, i + 1, seen, cleaned)
             ELSE LET c == clean(rs[i])
                  IN  IF IsRaise(c) THEN [err |-> c.raise, rows |-> <<>>]
                      ELSE PrepareLoop(rs, i + 1, seen \cup {key}, Append(cleaned, c))

prepare(rs) == PrepareLoop(rs, 1, {}, <<>>)

-----------------------------------------------------------------------------
(* The batches prepare is checked on *)

MaxRawRows == 2

\* A dict entry k: v, or no entry when the key is absent.
Absent == [absent |-> TRUE]
EmptyDict == [k \in {} |-> None]
Entry(k, v) == IF v = Absent THEN EmptyDict ELSE k :> v

SeqsUpTo(S, n) == UNION {[1..k -> S] : k \in 0..n}

UrlVals == {Absent, EmptyStr, PyStr(<<"u">>)}
TextVals == {None, PyStr(<<" ">>), PyStr(<<" ", "a">>)}
TitleVals == {Absent, PyStr(<<"a">>)}
CaptionVals == {Absent, PyStr(<<"a">>)}

\* Records of every combination of the fields the dedup key and the stored
\* text are computed from.
KeyFieldRecords ==
    {Entry("platform", PyStr(<<"X">>)) @@ Entry("url", u) @@ Entry("text", te)
        @@ Entry("title", ti) @@ Entry("caption", ca) :
        u \in UrlVals, te \in TextVals, ti \in TitleVals, ca \in CaptionVals}

\* Records shaped as the ingest adapters write them (01_ingest.py), and
\* records with a field of the wrong type.
AdapterRecords ==
    {[platform |-> PyStr(<<"R">>), subreddit |-> PyStr(<<"s">>),
      url |-> PyStr(<<"v">>), title |-> PyStr(<<"a", "\t", "\n", "b">>),
      text |-> EmptyStr, likes |-> None, comments |-> None, shares |-> None],
     [platform |-> PyStr(<<"t">>), term |-> PyStr(<<"a">>), ts |-> PyStr(<<"1">>),
      value |-> PyInt(1)],
     [platform |-> PyStr(<<"t">>), term |-> PyStr(<<"b">>), ts |-> PyStr(<<"1">>),
      value |-> PyInt(2)],
     [platform |-> None, author |-> None, url |-> None, title |-> None,
      text |-> None, caption |-> None, likes |-> PyStr(<<"x">>)],
     EmptyDict}

IllTypedRecords ==
    {[platform |-> PyInt(5), url |-> PyStr(<<"u">>)],
     [platform |-> PyStr(<<"x">>), title |-> PyInt(5), url |-> PyStr(<<"w">>)],
     [platform |-> PyStr(<<"x">>), text |-> PyInt(5)]}

RawUniverse == KeyFieldRecords \cup AdapterRecords \cup IllTypedRecords

InitPrepare ==
    /\ raw \in SeqsUpTo(RawUniverse, MaxRawRows)
    /\ rows = <<>>
    /\ sample = <<>>
    /\ n_per_platform = 0
    /\ bases = <<>>
    /\ pc = "loaded"
    /\ err = ""
    /\ LaterIdle

\* rows = prepare(load_all())
Prepare ==
    /\ pc = "loaded"
    /\ LET res == prepare(raw)
       IN  /\ rows' = res.rows
           /\ err' = res.err
           /\ pc' = IF res.err = "" THEN "prepared" ELSE "raised"
    /\ UNCHANGED <<raw, sample, n_per_platform, bases, laterVars>>

NextPrepare == Prepare

SpecPrepare == InitPrepare /\ [][NextPrepare]_vars

-----------------------------------------------------------------------------
(* Properties of prepare *)

Indices(q) == 1..Len(q)

\* The input positions whose dedup key no earlier position carries.
FirstSeen(rs) ==
    {i \in Indices(rs) : \A j \in 1..(i - 1) : dedup_key(rs[j]) # dedup_key(rs[i])}

\* The k-th smallest member of a set of positions.
Kth(S, k) == CHOOSE i \in S : Cardinality({j \in S : j <= i}) = k

\* C1: no two records returned by prepare share a dedup key (the url when
\* non-empty, otherwise the digest of the record's text, or of its title
\* when the text is empty).
C1_NoSharedKey ==
    pc = "prepared" =>
        \A i, j \in Indices(rows) :
            i # j => dedup_key(rows[i]) # dedup_key(rows[j])

\* C2: prepare keeps exactly the first input record of every dedup key, in
\* input order, as its cleaned record.
C2_FirstSeenWins ==
    pc = "prepared" =>
        LET keep == FirstSeen(raw)
        IN  /\ Len(rows) = Cardinality(keep)
            /\ \A k \in Indices(rows) : rows[k] = clean(raw[Kth(keep, k)])

\* Two records with the same url and different texts went in, and the one
\* record that came out carries the text of the first.
C2_Witness ==
    /\ pc = "prepared"
    /\ Len(raw) = 2
    /\ Truthy(Get(raw[1], "url"))
    /\ Get(raw[1], "url") = Get(raw[2], "url")
    /\ Len(rows) = 1
    /\ rows[1].text = norm_text(Get(raw[1], "text"))
    /\ rows[1].text # norm_text(Get(raw[2], "text"))

\* C3: prepare is idempotent: prepare(prepare(B)) = prepare(B).
C3_Idempotent ==
    pc = "prepared" => prepare(rows) = [err |-> "", rows |-> rows]

\* The fields prepare applies a str operation or a truth test to.
StrFields == {"platform", "url", "title", "text", "caption", "author", "subreddit"}

\* Every such field of the record is missing, null, empty or a str.
BlankOrStr(r) == \A k \in StrFields : IsNone(Get(r, k)) \/ IsStr(Get(r, k))

\* The record has no url, no text and no title (missing, null or empty).
NoIdentity(r) == \A k \in {"url", "text", "title"} : ~Truthy(Get(r, k))

CleanKeys ==
    {"platform", "ts", "author", "url", "title", "text", "likes", "comments",
     "shares", "hashtags", "tag", "term", "value"}

\* C4: on a batch whose fields are missing, null, empty or well typed,
\* prepare does not raise, returns one record with defaulted fields per
\* distinct dedup key, and keys a record without url, text and title by the
\* digest of the empty string.
C4_NeverRaises ==
    (\A i \in Indices(raw) : BlankOrStr(raw[i])) =>
        /\ pc # "raised"
        /\ pc = "prepared" =>
            /\ Len(rows) = Cardinality({dedup_key(raw[i]) : i \in Indices(raw)})
            /\ \A k \in Indices(rows) :
                /\ DOMAIN rows[k] = CleanKeys
                /\ \A f \in {"platform", "author", "title", "text"} : IsStr(rows[k][f])
            /\ \A i \in Indices(raw) :
                NoIdentity(raw[i]) => dedup_key(raw[i]) = [md5 |-> <<>>]

\* Two different records without url, text or title, one with its fields
\* null and one with them missing, went in and one defaulted record came out.
C4_Witness ==
    /\ pc = "prepared"
    /\ Len(raw) = 2
    /\ raw[1] # raw[2]
    /\ NoIdentity(raw[1]) /\ NoIdentity(raw[2])
    /\ \E i \in 1..2 : "platform" \in DOMAIN raw[i] /\ IsNone(raw[i].platform)
    /\ \E i \in 1..2 : "platform" \notin DOMAIN raw[i]
    /\ Len(rows) = 1
    /\ rows[1].platform = EmptyStr /\ rows[1].text = EmptyStr

-----------------------------------------------------------------------------
(* Long integers *)

RECURSIVE SumSeq(_)
SumSeq(q) == IF q = <<>> THEN 0 ELSE Head(q) + SumSeq(Tail(q))

\* Long integers: Limbs digits of base Base, the lowest first.
Base == 10000
Limbs == 10

Long(q) == [i \in 1..Limbs |-> IF i <= Len(q) THEN q[i] ELSE 0]
LongZero == Long(<<>>)

\* The digits of a sequence of integers, carries (or borrows) passed upwards.
RECURSIVE CarryFrom(_, _, _)
CarryFrom(q, i, c) ==
    IF i > Len(q) THEN <<>>
    ELSE <<(q[i] + c) % Base>> \o CarryFrom(q, i + 1, (q[i] + c) \div Base)

Carry(q) == CarryFrom(q, 1, 0)

LongSum(qs) == Carry([i \in 1..Limbs |-> SumSeq([j \in 1..Len(qs) |-> qs[j][i]])])
LongTimes(a, m) == Carry([i \in 1..Limbs |-> a[i] * m])
LongMinus(a, b) == Carry([i \in 1..Limbs |-> a[i] - b[i]])
LongSquare(a) ==
    Carry([k \in 1..Limbs |-> SumSeq([i \in 1..k |-> a[i] * a[k + 1 - i]])])
LongLeq(a, b) ==
    \/ a = b
    \/ \E i \in 1..Limbs : a[i] < b[i] /\ \A j \in (i + 1)..Limbs : a[j] = b[j]

-----------------------------------------------------------------------------
(* safe_nonneg_int *)

DigitChars == <<"0", "1", "2", "3", "4", "5", "6", "7", "8", "9">>
IsDigit(c) == \E i \in 1..10 : DigitChars[i] = c
DigitVal(c) == (CHOOSE i \in 1..10 : DigitChars[i] = c) - 1

\* The number a string of digits denotes ("" denotes 0).
RECURSIVE DigitsVal(_)
DigitsVal(ds) ==
    IF ds = <<>> THEN 0
    ELSE 10 * DigitsVal(SubSeq(ds, 1, Len(ds) - 1)) + DigitVal(ds[Len(ds)])

\* k zeros
RECURSIVE Zeros(_)
Zeros(k) ==
    IF k = 0 THEN <<>>
    ELSE IF k = 1 THEN <<"0">>
    ELSE Zeros(k \div 2) \o Zeros(k - k \div 2)

\* The largest e with 2^e <= n, for n >= 1.
RECURSIVE Log2(_)
Log2(n) == IF n < 2 THEN 0 ELSE 1 + Log2(n \div 2)

\* float(str): surrounding whitespace is dropped; an underscore may stand
\* between two digits; then an optional sign and either 'inf', 'infinity'
\* or 'nan' in any case, or digits with at most one point and a digit
\* somewhere, optionally followed by 'e' or 'E', an optional sign and
\* digits; anything else raises ValueError.  (The finite numbers of the
\* model have at most 6 digits before the point, once the exponent is
\* applied, and any number of digits after it.)
Unsigned(t) == IF t # <<>> /\ t[1] \in {"-", "+"} THEN Tail(t) ELSE t

\* Every underscore stands between two digits.
underscores_ok(t) ==
    \A i \in 1..Len(t) :
        t[i] = "_" => /\ i > 1 /\ IsDigit(t[i - 1])
                      /\ i < Len(t) /\ IsDigit(t[i + 1])

without_underscores(t) == SelectSeq(t, LAMBDA c : c # "_")

\* The text is the word, in any case.
UpperChar(c) ==
    CASE c = "i" -> "I" [] c = "n" -> "N" [] c = "f" -> "F"
      [] c = "t" -> "T" [] c = "y" -> "Y" [] c = "a" -> "A"
IsWord(body, word) ==
    /\ Len(body) = Len(word)
    /\ \A i \in 1..Len(word) : body[i] \in {word[i], UpperChar(word[i])}

IsInfWord(body) ==
    \/ IsWord(body, <<"i", "n", "f">>)
    \/ IsWord(body, <<"i", "n", "f", "i", "n", "i", "t", "y">>)
IsNanWord(body) == IsWord(body, <<"n", "a", "n">>)

\* The mantissa and the exponent of the text: what stands before and after
\* its first 'e' or 'E'.
ExpsOf(body) == {i \in 1..Len(body) : body[i] \in {"e", "E"}}

ExpAt(body) ==
    IF ExpsOf(body) = {} THEN Len(body) + 1
    ELSE CHOOSE i \in ExpsOf(body) : \A j \in ExpsOf(body) : i <= j

mantissa_of(body) == SubSeq(body, 1, ExpAt(body) - 1)
exponent_of(body) == SubSeq(body, ExpAt(body) + 1, Len(body))

DotsOf(body) == {i \in 1..Len(body) : body[i] = "."}

DotAt(body) ==
    IF DotsOf(body) = {} THEN Len(body) + 1 ELSE CHOOSE i \in DotsOf(body) : TRUE

\* A mantissa: digits and at most one point, with a digit somewhere.
WellFormed(body) ==
    /\ Cardinality(DotsOf(body)) <= 1
    /\ \A i \in 1..Len(body) : body[i] = "." \/ IsDigit(body[i])
    /\ \E i \in 1..Len(body) : IsDigit(body[i])

\* An exponent: an optional sign and at least one digit.
WellFormedExponent(ex) ==
    /\ Unsigned(ex) # <<>>
    /\ \A i \in 1..Len(Unsigned(ex)) : IsDigit(Unsigned(ex)[i])

\* A number: a mantissa, alone or with an exponent.
WellFormedNumber(body) ==
    /\ WellFormed(mantissa_of(body))
    /\ ExpsOf(body) # {} => WellFormedExponent(exponent_of(body))

\* The digits of the mantissa, and where the point stands among them once
\* the exponent has moved it: after the first point_of(body) digits.
digits_of(body) ==
    SelectSeq(mantissa_of(body), LAMBDA c : c # ".")

RECURSIVE LStripZeros(_)
LStripZeros(ds) == IF ds # <<>> /\ ds[1] = "0" THEN LStripZeros(Tail(ds)) ELSE ds

\* The exponent, or 10000 in place of any larger one: with the digits a
\* mantissa of the model has, the number is then beyond every double, or
\* below every double but 0.0, all the same.
exponent_size(ex) ==
    IF Len(LStripZeros(Unsigned(ex))) > 4 THEN 10000 ELSE DigitsVal(Unsigned(ex))

exponent_value(body) ==
    IF ExpsOf(body) = {} THEN 0
    ELSE IF exponent_of(body)[1] = "-" THEN -exponent_size(exponent_of(body))
    ELSE exponent_size(exponent_of(body))

point_of(body) == DotAt(mantissa_of(body)) - 1 + exponent_value(body)

\* The number of digits the integer part has, or minus the number of zeros
\* that follow the point, for a number that is not 0.
magnitude(body) ==
    point_of(body) - (Len(digits_of(body)) - Len(LStripZeros(digits_of(body))))

\* The digits before the point.
whole_digits(body) ==
    IF point_of(body) <= 0 THEN <<>>
    ELSE IF point_of(body) >= Len(digits_of(body))
    THEN digits_of(body) \o Zeros(point_of(body) - Len(digits_of(body)))
    ELSE SubSeq(digits_of(body), 1, point_of(body))

\* The digits after the point.
decimal_digits(body) ==
    IF point_of(body) <= 0 THEN Zeros(-point_of(body)) \o digits_of(body)
    ELSE IF point_of(body) >= Len(digits_of(body)) THEN <<>>
    ELSE SubSeq(digits_of(body), point_of(body) + 1, Len(digits_of(body)))

\* The integer part of the literal and its decimals, without the zeros at
\* their end.
whole_of(body) == DigitsVal(whole_digits(body))

RECURSIVE RStripZeros(_)
RStripZeros(ds) ==
    IF ds # <<>> /\ ds[Len(ds)] = "0" THEN RStripZeros(SubSeq(ds, 1, Len(ds) - 1)) ELSE ds

decimals_of(body) == RStripZeros(decimal_digits(body))

\* 5^m, seven factors at a time.
RECURSIVE FiveTo(_)
FiveTo(m) ==
    IF m <= 7 THEN LongTimes(Long(<<1>>), 5 ^ m)
    ELSE LongTimes(FiveTo(m - 7), 5 ^ 7)

\* The digit of a long integer that stands for 10^p.
long_digit(a, p) ==
    IF p \div 4 + 1 > Limbs THEN 0
    ELSE (a[p \div 4 + 1] \div (10 ^ (p % 4))) % 10

\* The m decimals of 2^-m, which is 5^m / 10^m, for the half units in the
\* last place of the doubles from 1/2 up to 2^53.
half_units == [m \in 1..54 |-> [i \in 1..m |-> long_digit(FiveTo(m), m - i)]]

half_unit(m) == half_units[m]

\* The decimals of a literal as numbers, and the decimals of what the
\* literal lacks to the next integer; the last decimal is not 0.
values_of(decimals) == [i \in 1..Len(decimals) |-> DigitVal(decimals[i])]

complement(decimals) ==
    [i \in 1..Len(decimals) |->
        IF i = Len(decimals) THEN 10 - DigitVal(decimals[i])
        ELSE 9 - DigitVal(decimals[i])]

\* 0.a <= 0.b, for a of n decimals and b of m: at the first decimal in
\* which they differ, that of a is the smaller.
decimal_at(a, n, i) == IF i <= n THEN a[i] ELSE 0

differing(a, n, b, m) ==
    {i \in 1..(IF n >= m THEN n ELSE m) : decimal_at(a, n, i) # decimal_at(b, m, i)}

first_of(S) == CHOOSE i \in S : \A j \in S : i <= j

frac_leq(a, n, b, m) ==
    \/ differing(a, n, b, m) = {}
    \/ decimal_at(a, n, first_of(differing(a, n, b, m)))
           < decimal_at(b, m, first_of(differing(a, n, b, m)))

\* float() returns the double nearest to the literal, the one with the even
\* mantissa when two are equally near, which is the integer's.  The doubles
\* from 2^e up to 2^(e+1) are 2^(e-52) apart, so a literal whole.decimals
\* becomes the integer whole when it is at most 2^(e-53) above it, with
\* 2^e <= whole < 2^(e+1), ...
rounds_to_whole(whole, decimals) ==
    /\ whole >= 1
    /\ frac_leq(values_of(decimals), Len(decimals),
                half_unit(53 - Log2(whole)), 53 - Log2(whole))

\* ... and the integer whole + 1 when it is at most 2^(e-53) below it, with
\* 2^e <= whole < 2^(e+1), the doubles below 1 being 2^-53 apart.
half_unit_below(whole) == IF whole = 0 THEN 54 ELSE 53 - Log2(whole)

rounds_to_next(whole, decimals) ==
    frac_leq(complement(decimals), Len(decimals),
             half_unit(half_unit_below(whole)), half_unit_below(whole))

\* A float is held by a decimal that it is the nearest double to: a number
\* of thousandths (PyFloat), or a literal with more decimals (Literal); or
\* it is an infinity (PyInf) or not a number (PyNan).
PyNan == [nan |-> TRUE]
IsNan(v) == DOMAIN v = {"nan"}
Literal(neg, whole, decimals) == [neg |-> neg, whole |-> whole, decimals |-> decimals]
IsLiteral(v) == DOMAIN v = {"neg", "whole", "decimals"}

\* The nearest double to whole.decimals.
nearest(whole, decimals) ==
    IF Len(decimals) <= 3
    THEN PyFloat(1000 * whole + DigitsVal(SubSeq(decimals \o <<"0", "0", "0">>, 1, 3)))
    ELSE IF rounds_to_next(whole, decimals) THEN PyFloat(1000 * (whole + 1))
    ELSE IF rounds_to_whole(whole, decimals) THEN PyFloat(1000 * whole)
    ELSE Literal(FALSE, whole, decimals)

\* -f
\* -f.  The model has one infinity: int() refuses both.
negated(f) ==
    IF IsInf(f) THEN f
    ELSE IF IsLiteral(f) THEN [f EXCEPT !.neg = ~f.neg]
    ELSE PyFloat(-f.f)

\* The number is beyond the largest double, 1.797693134...e308: it has more
\* than 309 digits before the point, or 309 that begin with more than
\* 179769313.
leading_digits(body) ==
    DigitsVal(SubSeq(LStripZeros(digits_of(body)) \o Zeros(9), 1, 9))

beyond_largest(body) ==
    \/ magnitude(body) > 309
    \/ magnitude(body) = 309 /\ leading_digits(body) > 179769313

\* The float of a number without sign: 0.0 for zero and for a number below
\* 10^-325, which is below half the smallest double; infinity for a number
\* beyond the largest.
number_of(body) ==
    IF LStripZeros(digits_of(body)) = <<>> THEN PyFloat(0)
    ELSE IF beyond_largest(body) THEN PyInf
    ELSE IF magnitude(body) < -324 THEN PyFloat(0)
    ELSE nearest(whole_of(body), decimals_of(body))

\* The float of a text without surrounding whitespace or underscores.
parse_float(t) ==
    IF IsInfWord(Unsigned(t)) THEN PyInf
    ELSE IF IsNanWord(Unsigned(t)) THEN PyNan
    ELSE IF ~WellFormedNumber(Unsigned(t)) THEN Raise("ValueError")
    ELSE IF t[1] = "-" THEN negated(number_of(Unsigned(t)))
    ELSE number_of(Unsigned(t))

float_of_str(chars) ==
    IF ~underscores_ok(chars) THEN Raise("ValueError")
    ELSE parse_float(without_underscores(Strip(chars)))

\* float(x)
float_of(x) ==
    IF IsInt(x) THEN PyFloat(1000 * x.n)
    ELSE IF IsFloat(x) \/ IsInf(x) THEN x
    ELSE IF IsStr(x) THEN float_of_str(x.s)
    ELSE Raise("TypeError")

\* int(f) of a float: truncation towards zero; OverflowError on infinity,
\* ValueError on nan.
int_of_float(f) ==
    IF IsInf(f) THEN Raise("OverflowError")
    ELSE IF IsNan(f) THEN Raise("ValueError")
    ELSE IF IsLiteral(f) THEN PyInt(IF f.neg THEN -f.whole ELSE f.whole)
    ELSE IF f.f < 0 THEN PyInt(-((-f.f) \div 1000))
    ELSE PyInt(f.f \div 1000)

\* safe_nonneg_int(x)
safe_nonneg_int(x) ==
    IF IsNone(x) THEN 0
    ELSE LET f == float_of(x)
         IN  IF IsRaise(f) THEN 0
             ELSE LET v == int_of_float(f)
                  IN  IF IsRaise(v) THEN 0
                      ELSE IF v.n > 0 THEN v.n ELSE 0

-----------------------------------------------------------------------------
(* trend_score.  A float is held as a decimal: the list bases in            *)
(* thousandths, the score in thousandths (the code rounds it to 3 digits). *)
(* The score is computed from log1p to 12 decimals, in long integers, so   *)
(* that its rounding is the one of the double-precision value; it is 0 for *)
(* a batch of equal bases, where the code's is 0.0 or -0.0.                *)

\* round(1000 * math.log1p(b)) for b = 0, 1, 2, ...
Log1pTable ==
    <<0, 693, 1099, 1386, 1609, 1792, 1946, 2079, 2197, 2303, 2398, 2485, 2565,
      2639, 2708, 2773, 2833, 2890, 2944, 2996, 3045, 3091, 3135, 3178, 3219>>

\* math.log1p(b), in thousandths
log1p(b) == Log1pTable[b + 1]

Max(a, b) == IF a >= b THEN a ELSE b

\* A trend_score that weights comments like likes.
base_of_unweighted(r) ==
    safe_nonneg_int(Get(r, "likes")) + safe_nonneg_int(Get(r, "comments"))
        + 2 * safe_nonneg_int(Get(r, "shares"))

\* base = likes + 2 * comments + 2 * shares
base_of(r) ==
    LET likes == safe_nonneg_int(Get(r, "likes"))
        comments == safe_nonneg_int(Get(r, "comments"))
        shares == safe_nonneg_int(Get(r, "shares"))
    IN  likes + 2 * comments + 2 * shares

\* The first loop: bases = [math.log1p(max(0, base)) for each record].
bases_of(rs) == [i \in 1..Len(rs) |-> log1p(Max(0, base_of(rs[i])))]

\* round(10^12 * math.log1p(b)) for b = 0, 1, 2, ..., as long integers.
Log1pDigits ==
    <<<<   0,    0,    0,    0>>,
      << 560, 4718, 6931,    0>>,
      <<8668, 1228,  986,    1>>,
      <<1120, 9436, 3862,    1>>,
      <<2434, 3791, 6094,    1>>,
      <<9228, 5946, 7917,    1>>,
      <<9055, 1014, 9459,    1>>,
      <<1680, 4154,  794,    2>>,
      <<7336, 2457, 1972,    2>>,
      <<2994, 8509, 3025,    2>>,
      <<2798, 9527, 3978,    2>>,
      <<9788,  664, 4849,    2>>,
      <<7462, 4935, 5649,    2>>,
      <<9615, 5732, 6390,    2>>,
      <<1102, 5020, 7080,    2>>,
      <<2240, 8872, 7725,    2>>,
      <<4056, 1334, 8332,    2>>,
      <<7896, 7175, 8903,    2>>,
      <<9166, 3897, 9444,    2>>,
      <<3554, 3227, 9957,    2>>,
      <<7723, 2243,  445,    3>>,
      <<3358, 4245,  910,    3>>,
      <<5929, 9421, 1354,    3>>,
      << 348, 5383, 1780,    3>>,
      <<4868, 7582, 2188,    3>>>>

\* s = math.log1p(max(0, base)) of each record, to 12 decimals.
logs_of(rs) == [i \in 1..Len(rs) |-> Long(Log1pDigits[Max(0, base_of(rs[i])) + 1])]

\* n * (s - mu) for one record, with its sign: mu = fmean(bases).
deviation(s, total, n) ==
    IF LongLeq(total, LongTimes(s, n))
    THEN [neg |-> FALSE, mag |-> LongMinus(LongTimes(s, n), total)]
    ELSE [neg |-> TRUE, mag |-> LongMinus(total, LongTimes(s, n))]

deviations(ls) == [i \in 1..Len(ls) |-> deviation(ls[i], LongSum(ls), Len(ls))]

\* sd = pstdev(bases) if len(bases) > 1 else 0.0, where
\* pstdev = sqrt(sum((s - mu)^2) / n); held as n^3 * sd^2, which is the sum
\* of the squares of the deviations above.
sd_squared(devs) ==
    IF Len(devs) > 1 THEN LongSum([i \in 1..Len(devs) |-> LongSquare(devs[i].mag)])
    ELSE LongZero

\* 1.0 in the units of sd_squared: n^3 * 10^24.
one_squared(n) ==
    LongTimes(LongTimes(LongTimes(Long(<<0, 0, 0, 0, 0, 0, 1>>), n), n), n)

\* A trend_score that divides by sd unguarded.
divisor_unguarded(sd2, n) == sd2

\* (sd if sd > 0 else 1.0), squared
divisor(sd2, n) == IF sd2 # LongZero THEN sd2 ELSE one_squared(n)

\* Whether 1000 * |z| >= k - 1/2, for k >= 1: (2k - 1)^2 * divisor^2 is at
\* most 2000^2 * (s - mu)^2, both in the units of sd_squared.
reaches(k, div, num) == LongLeq(LongTimes(LongTimes(div, 2 * k - 1), 2 * k - 1), num)

\* The largest k in lo..hi that 1000 * |z| reaches, lo being reached.
RECURSIVE round_between(_, _, _, _)
round_between(lo, hi, div, num) ==
    IF lo >= hi THEN lo
    ELSE IF reaches((lo + hi + 1) \div 2, div, num)
    THEN round_between((lo + hi + 1) \div 2, hi, div, num)
    ELSE round_between(lo, ((lo + hi + 1) \div 2) - 1, div, num)

\* 1000 * round(|z|, 3), for |z| = |s - mu| / divisor: |z| < n.
thousandths(div, num, n) ==
    IF ~reaches(1, div, num) THEN 0 ELSE round_between(1, 1000 * n, div, num)

\* round((s - mu) / divisor, 3), in thousandths; ZeroDivisionError on 0.
zscore(dev, div, n) ==
    IF div = LongZero THEN Raise("ZeroDivisionError")
    ELSE PyFloat((IF dev.neg THEN -1 ELSE 1)
                 * thousandths(div, LongTimes(LongTimes(LongTimes(LongSquare(dev.mag), 2000), 2000), n), n))

\* A trend_score that also stores the coerced likes in the record.
set_score_and_likes(r, z) ==
    [k \in DOMAIN r \cup {"score", "likes"} |->
        IF k = "score" THEN z
        ELSE IF k = "likes" THEN PyInt(safe_nonneg_int(Get(r, "likes")))
        ELSE r[k]]

\* r["score"] = z
set_score(r, z) ==
    [k \in DOMAIN r \cup {"score"} |-> IF k = "score" THEN z ELSE r[k]]

\* The scores of the batch, one per record.
scores_of(devs) ==
    [i \in 1..Len(devs) |-> zscore(devs[i], divisor(sd_squared(devs), Len(devs)), Len(devs))]

\* The records with their scores, or the exception.
scored(rs, z) ==
    IF \E i \in 1..Len(z) : IsRaise(z[i])
    THEN [err |-> "ZeroDivisionError", rows |-> <<>>, bases |-> bases_of(rs)]
    ELSE [err |-> "", rows |-> [i \in 1..Len(rs) |-> set_score(rs[i], z[i])],
          bases |-> bases_of(rs)]

\* trend_score(rows): [err, rows, bases]
trend_score(rs) == scored(rs, scores_of(deviations(logs_of(rs))))

-----------------------------------------------------------------------------
(* The batches trend_score is checked on *)

MaxScoreRows == 3

RECURSIVE Nines(_)
Nines(k) == IF k = 0 THEN <<>> ELSE <<"9">> \o Nines(k - 1)

LikeVals ==
    {Absent, None, PyInt(-1), PyInt(0), PyInt(2), PyFloat(2500), PyFloat(-500),
     PyInf, PyStr(<<"3">>), PyStr(<<"x">>), PyStr(<<"-", "2">>),
     PyStr(<<" ", "1", ".", "5">>), PyStr(<<"2", ".">> \o Nines(16)),
     PyStr(<<"2", ".">> \o Nines(15)), PyStr(<<"0", ".">> \o Nines(17))}

LikesOnlyRecords ==
    {Entry("platform", PyStr(<<"x">>)) @@ Entry("likes", l) : l \in LikeVals}

WeightedRecords ==
    {Entry("platform", PyStr(<<"r">>)) @@ Entry("likes", l)
        @@ Entry("comments", c) @@ Entry("shares", sh) :
        l \in {Absent, PyInt(2)},
        c \in {PyInt(1)},
        sh \in {Absent, PyStr(<<"1">>)}}

\* Records that already carry a score.
ScoredRecords ==
    {[platform |-> PyStr(<<"x">>), likes |-> PyInt(2), score |-> PyFloat(9000)],
     [platform |-> PyStr(<<"r">>), comments |-> PyInt(1), score |-> None]}

ScoreUniverse == LikesOnlyRecords \cup WeightedRecords \cup ScoredRecords

\* Records of bases 0, 2, 2, 2 and 6, one of them with a score.
CoreRecords ==
    {Entry("platform", PyStr(<<"x">>)),
     Entry("platform", PyStr(<<"x">>)) @@ Entry("likes", PyInt(2)),
     Entry("platform", PyStr(<<"r">>)) @@ Entry("comments", PyInt(1)),
     [platform |-> PyStr(<<"r">>), likes |-> PyInt(2), comments |-> PyInt(1),
      shares |-> PyStr(<<"1">>)],
     [platform |-> PyStr(<<"x">>), likes |-> PyInt(2), score |-> PyFloat(9000)]}

\* Batches of the core records, and any record followed by core records.
Batches ==
    SeqsUpTo(CoreRecords, MaxScoreRows)
        \cup {<<r>> \o b : r \in ScoreUniverse, b \in SeqsUpTo(CoreRecords, MaxScoreRows - 1)}

InitScore ==
    /\ raw \in Batches
    /\ rows = <<>>
    /\ sample = <<>>
    /\ n_per_platform = 0
    /\ bases = <<>>
    /\ pc = "loaded"
    /\ err = ""
    /\ LaterIdle

\* rows = trend_score(rows)
TrendScore ==
    /\ pc = "loaded"
    /\ \E res \in {trend_score(raw)} :
           /\ rows' = res.rows
           /\ bases' = res.bases
           /\ err' = res.err
           /\ pc' = IF res.err = "" THEN "scored" ELSE "raised"
    /\ UNCHANGED <<raw, sample, n_per_platform, laterVars>>

NextScore == TrendScore

SpecScore == InitScore /\ [][NextScore]_vars

-----------------------------------------------------------------------------
(* Properties of trend_score *)

\* The score of every returned record is zero.
AllZero(rs) == \A i \in Indices(rs) : rs[i].score = PyFloat(0)

\* C5: trend_score never fails with a division error; a batch of one record,
\* or one whose records all have the same base, scores every record 0.0; an
\* empty batch gives an empty result.
C5_ZeroVarianceGuard ==
    /\ pc \in {"loaded", "scored"}
    /\ err # "ZeroDivisionError"
    /\ pc = "scored" =>
        /\ Len(rows) = Len(raw)
        /\ (\/ Len(raw) = 1
            \/ \A i, j \in Indices(raw) : base_of(raw[i]) = base_of(raw[j]))
                => AllZero(rows)
        /\ raw = <<>> => rows = <<>>

\* Three records with the same base from different counters were scored 0.
C5_Witness ==
    /\ pc = "scored"
    /\ Len(raw) = 3
    /\ raw[1] # raw[2]
    /\ Get(raw[1], "likes") = PyInt(2) /\ Get(raw[2], "comments") = PyInt(1)
    /\ \A i \in Indices(raw) : base_of(raw[i]) = 2
    /\ AllZero(rows)

\* The counters of a record.
Counters == {"likes", "comments", "shares"}

\* The text of a string counter denotes a number: an optional sign, digits
\* and at most one point, between optional whitespace.
DenotesNumber(v) == IsStr(v) /\ WellFormed(Unsigned(Strip(v.s)))

\* The value fails numeric coercion: it is neither a finite number nor a
\* text that denotes one.
FailsCoercion(v) == ~(IsInt(v) \/ IsFloat(v) \/ DenotesNumber(v))

\* The number is negative.
IsNegative(v) ==
    IF IsInt(v) THEN v.n < 0
    ELSE IF IsFloat(v) THEN v.f < 0
    ELSE /\ Strip(v.s)[1] = "-"
         /\ \E i \in 1..Len(v.s) : IsDigit(v.s[i]) /\ v.s[i] # "0"

\* The integer part of a number that is not negative.
IntegerPart(v) ==
    IF IsInt(v) THEN v.n
    ELSE IF IsFloat(v) THEN v.f \div 1000
    ELSE whole_of(Unsigned(Strip(v.s)))

\* The value is coerced to 0: it is null, fails numeric coercion or is
\* negative.
CountsZero(v) == IsNone(v) \/ FailsCoercion(v) \/ IsNegative(v)

\* The non-negative integer value of a counter.
IntegerValue(v) == IF CountsZero(v) THEN 0 ELSE IntegerPart(v)

\* The decimals of a text begin with at least k nines.
NinesAfterPoint(v, k) ==
    /\ IsStr(v)
    /\ \E i \in 1..Len(v.s) :
        /\ v.s[i] = "."
        /\ Len(v.s) >= i + k
        /\ \A j \in (i + 1)..(i + k) : v.s[j] = "9"

WithoutScores(rs) ==
    [i \in Indices(rs) |-> [k \in DOMAIN rs[i] \ {"score"} |-> rs[i][k]]]

\* C7: trend_score returns the same records in the same order, each changed
\* only in its score; a score already present is ignored and overwritten,
\* and scoring the scored batch again gives the same scores.
C7_OnlyScoreChanges ==
    pc = "scored" =>
        /\ Len(rows) = Len(raw)
        /\ \A i \in Indices(raw) :
            /\ DOMAIN rows[i] = DOMAIN raw[i] \cup {"score"}
            /\ \A k \in DOMAIN raw[i] \ {"score"} : rows[i][k] = raw[i][k]
            /\ IsFloat(rows[i].score)
        /\ trend_score(WithoutScores(raw)).rows = rows
        /\ trend_score(rows).rows = rows

\* A record that came with score 9.0 and a record whose likes is not a
\* number were scored: the old score is gone, the likes are as they were.
C7_Witness ==
    /\ pc = "scored"
    /\ \E i, j \in Indices(raw) :
        /\ Get(raw[i], "score") = PyFloat(9000)
        /\ rows[i].score # PyFloat(9000)
        /\ rows[i].score # PyFloat(0)
        /\ Get(raw[j], "likes") = PyStr(<<"x">>)
        /\ rows[j].likes = PyStr(<<"x">>)

-----------------------------------------------------------------------------
(* representative_sample *)

\* by_platform's keys in insertion order: the platforms (r.get("platform"))
\* of the records, each at its first occurrence.
RECURSIVE platforms_of(_)
platforms_of(rs) ==
    IF rs = <<>> THEN <<>>
    ELSE LET front == platforms_of(SubSeq(rs, 1, Len(rs) - 1))
             p == Get(rs[Len(rs)], "platform")
         IN  IF \E i \in 1..Len(front) : front[i] = p THEN front
             ELSE Append(front, p)

\* by_platform[p]: the records of platform p, in input order.
RECURSIVE items_of(_, _)
items_of(rs, p) ==
    IF rs = <<>> THEN <<>>
    ELSE IF Get(Head(rs), "platform") = p
         THEN <<Head(rs)>> \o items_of(Tail(rs), p)
         ELSE items_of(Tail(rs), p)

\* The sort key r.get("score", 0), in thousandths.  (The records given to
\* representative_sample come from trend_score, which sets a float score;
\* a record without the key counts 0.)
score_key(r) ==
    LET v == GetDefault(r, "score", PyInt(0))
    IN  IF IsInt(v) THEN 1000 * v.n ELSE v.f

\* x put into a list sorted by descending key, behind every record whose
\* key is not smaller: the place a stable sort gives it.
RECURSIVE insert_desc(_, _)
insert_desc(sorted, x) ==
    IF sorted = <<>> THEN <<x>>
    ELSE IF score_key(Head(sorted)) >= score_key(x)
         THEN <<Head(sorted)>> \o insert_desc(Tail(sorted), x)
         ELSE <<x>> \o sorted

RECURSIVE sort_from(_, _)
sort_from(sorted, items) ==
    IF items = <<>> THEN sorted
    ELSE sort_from(insert_desc(sorted, Head(items)), Tail(items))

\* A sort that leaves the records in ascending order of score.
sorted_ascending(items) ==
    LET desc == sort_from(<<>>, items)
    IN  [i \in 1..Len(desc) |-> desc[Len(desc) + 1 - i]]

\* sorted(items, key=lambda r: r.get("score", 0), reverse=True)
sorted_items(items) == sort_from(<<>>, items)

Min(a, b) == IF a <= b THEN a ELSE b

\* A slice that keeps one record more than the cap.
take_one_more(q, n) == SubSeq(q, 1, Min(n + 1, Len(q)))

\* A slice that stops one record short of the cap.
take_one_less(q, n) == SubSeq(q, 1, Min(Max(n - 1, 0), Len(q)))

\* q[:n]: the first n items, or all but the last -n when n is negative
take(q, n) ==
    IF n >= 0 THEN SubSeq(q, 1, Min(n, Len(q)))
    ELSE SubSeq(q, 1, Max(Len(q) + n, 0))

\* The loop over by_platform.items(): sample.extend(sorted_items[:n]).
RECURSIVE extend_from(_, _, _)
extend_from(rs, ps, n) ==
    IF ps = <<>> THEN <<>>
    ELSE take(sorted_items(items_of(rs, Head(ps))), n) \o extend_from(rs, Tail(ps), n)

representative_sample(rs, n) == extend_from(rs, platforms_of(rs), n)

-----------------------------------------------------------------------------
(* The batches representative_sample is checked on *)

MaxSampleRows == 3

\* The caps tried are the counts 0..MaxCap.
MaxCap == 2

SampleUniverse ==
    {Entry("platform", p) @@ Entry("text", t) @@ Entry("score", sc) :
        p \in {PyStr(<<"a">>), PyStr(<<"b">>)},
        t \in {PyStr(<<"p">>), PyStr(<<"q">>)},
        sc \in {Absent, PyFloat(-1000), PyFloat(0), PyFloat(1000)}}
    \cup {[text |-> PyStr(<<"p">>), score |-> PyFloat(1000)]}

InitSample ==
    /\ raw = <<>>
    /\ rows \in SeqsUpTo(SampleUniverse, MaxSampleRows)
    /\ sample = <<>>
    /\ n_per_platform \in 0..MaxCap
    /\ bases = <<>>
    /\ pc = "loaded"
    /\ err = ""
    /\ LaterIdle

\* balanced = representative_sample(rows, n_per_platform)
RepresentativeSample ==
    /\ pc = "loaded"
    /\ sample' = representative_sample(rows, n_per_platform)
    /\ pc' = "sampled"
    /\ UNCHANGED <<raw, rows, n_per_platform, bases, err, laterVars>>

NextSample == RepresentativeSample

SpecSample == InitSample /\ [][NextSample]_vars

-----------------------------------------------------------------------------
(* Properties of representative_sample *)

PlatformOf(r) == Get(r, "platform")

PlatformsIn(rs) == {PlatformOf(rs[i]) : i \in Indices(rs)}

\* How often record x occurs in the list.
Count(rs, x) == Cardinality({i \in Indices(rs) : rs[i] = x})

\* The part of the list that belongs to platform p.
OfPlatform(rs, p) ==
    LET Test(r) == PlatformOf(r) = p
    IN  SelectSeq(rs, Test)

\* C8: the sample holds at most N records of each platform, at most N times
\* the number of platforms in all, and no record more often than the input.
C8_AtMostNPerPlatform ==
    pc = "sampled" =>
        /\ \A p \in PlatformsIn(rows) : Len(OfPlatform(sample, p)) <= n_per_platform
        /\ Len(sample) <= n_per_platform * Cardinality(PlatformsIn(rows))
        /\ \A k \in Indices(sample) : Count(sample, sample[k]) <= Count(rows, sample[k])

\* Three records of one platform went in under cap 2 and two came out.
C8_Witness ==
    /\ pc = "sampled"
    /\ n_per_platform = 2
    /\ Len(rows) = 3
    /\ Cardinality(PlatformsIn(rows)) = 1
    /\ Len(sample) = 2

\* C9 as stated: every platform of the input has a record in the sample.
C9_EveryPlatformRepresented ==
    pc = "sampled" => PlatformsIn(rows) \subseteq PlatformsIn(sample)

\* C9, amended: under a cap of at least 1, every platform of the input has a
\* record in the sample.
C9_RepresentedUnderPositiveCap ==
    (pc = "sampled" /\ n_per_platform >= 1) =>
        PlatformsIn(rows) \subseteq PlatformsIn(sample)

\* Two records of one platform and one of another went in under cap 1, and
\* both platforms came out.
C9_Witness ==
    /\ pc = "sampled"
    /\ n_per_platform = 1
    /\ Len(rows) = 3
    /\ Cardinality(PlatformsIn(rows)) = 2
    /\ Cardinality(PlatformsIn(sample)) = 2
    /\ Len(sample) = 2

\* The input positions of platform p.
Group(p) == {i \in Indices(rows) : PlatformOf(rows[i]) = p}

\* The place of input position i among its platform's records ordered by
\* descending score, equal scores by input position.
Rank(i) ==
    1 + Cardinality({j \in Group(PlatformOf(rows[i])) :
            \/ score_key(rows[j]) > score_key(rows[i])
            \/ score_key(rows[j]) = score_key(rows[i]) /\ j < i})

\* C10: per platform, the sample holds the first N records of the platform
\* in descending score order, equal scores in input order; no dropped record
\* of a platform has a higher score than a kept one.
C10_TopNStable ==
    pc = "sampled" =>
        \A p \in PlatformsIn(rows) :
            LET out == OfPlatform(sample, p)
            IN  /\ Len(out) = Min(n_per_platform, Cardinality(Group(p)))
                /\ \A k \in Indices(out) :
                    \E i \in Group(p) : Rank(i) = k /\ out[k] = rows[i]
                /\ \A i \in Group(p) :
                    Rank(i) > Len(out) =>
                        \A k \in Indices(out) : score_key(rows[i]) <= score_key(out[k])

\* Three records of one platform, the lowest score first and then two equal
\* scores, went in under cap 2: the two equal ones came out in input order.
C10_Witness ==
    /\ pc = "sampled"
    /\ n_per_platform = 2
    /\ Len(rows) = 3
    /\ Cardinality(PlatformsIn(rows)) = 1
    /\ score_key(rows[1]) < score_key(rows[2])
    /\ score_key(rows[2]) = score_key(rows[3])
    /\ rows[2] # rows[3]
    /\ sample = <<rows[2], rows[3]>>

-----------------------------------------------------------------------------
(* ngram_slang *)

\* The defaults of ngram_slang(rows, min_len=3, top_k=50).
min_len_default == 3
top_k_default == 50

Letters ==
    {"a", "b", "c", "d", "e", "f", "g", "h", "i", "j", "k", "l", "m",
     "n", "o", "p", "q", "r", "s", "t", "u", "v", "w", "x", "y", "z"}

\* The character classes of ngram_slang's patterns, on lower-cased text:
\* "S" is \S, "w" is \w, "d" is \d, "g" is [a-z'\-]; and of the patterns of
\* 04_markdown_to_docx.py: "s" is \s, "u" is [^\s)].
InClass(cls, c) ==
    CASE cls = "S" -> ~IsSpace(c)
      [] cls = "w" -> c \in Letters \/ IsDigit(c) \/ c = "_"
      [] cls = "d" -> IsDigit(c)
      [] cls = "g" -> c \in Letters \cup {"'", "-"}
      [] cls = "s" -> IsSpace(c)
      [] cls = "u" -> ~IsSpace(c) /\ c # ")"

\* The length of the longest prefix of t made of characters of the class
\* (a greedy `+` or `*`).
RECURSIVE RunLen(_, _)
RunLen(cls, t) ==
    IF t # <<>> /\ InClass(cls, Head(t)) THEN 1 + RunLen(cls, Tail(t)) ELSE 0

Drop(t, k) == SubSeq(t, k + 1, Len(t))

StartsWith(t, prefix) ==
    Len(t) >= Len(prefix) /\ SubSeq(t, 1, Len(prefix)) = prefix

\* The length of the match of http\S+|[@#]\w+|\d+ at the start of t, 0 when
\* the pattern does not match there.
NoiseLen(t) ==
    IF StartsWith(t, <<"h", "t", "t", "p">>) /\ RunLen("S", Drop(t, 4)) >= 1
    THEN 4 + RunLen("S", Drop(t, 4))
    ELSE IF t # <<>> /\ Head(t) \in {"@", "#"} /\ RunLen("w", Tail(t)) >= 1
    THEN 1 + RunLen("w", Tail(t))
    ELSE RunLen("d", t)

\* re.sub(r"http\S+|[@#]\w+|\d+", " ", text)
RECURSIVE strip_noise(_)
strip_noise(t) ==
    IF t = <<>> THEN <<>>
    ELSE IF NoiseLen(t) > 0
    THEN <<" ">> \o strip_noise(Drop(t, NoiseLen(t)))
    ELSE <<Head(t)>> \o strip_noise(Tail(t))

\* re.findall(r"[a-z][a-z'\-]+", text)
RECURSIVE find_tokens(_)
find_tokens(t) ==
    IF t = <<>> THEN <<>>
    ELSE IF Head(t) \in Letters /\ RunLen("g", Tail(t)) >= 1
    THEN <<SubSeq(t, 1, 1 + RunLen("g", Tail(t)))>>
         \o find_tokens(Drop(t, 1 + RunLen("g", Tail(t))))
    ELSE find_tokens(Tail(t))

\* sep.join(parts), on character sequences.
RECURSIVE JoinWith(_, _)
JoinWith(parts, sep) ==
    IF parts = <<>> THEN <<>>
    ELSE IF Len(parts) = 1 THEN parts[1]
    ELSE parts[1] \o sep \o JoinWith(Tail(parts), sep)

Range(q) == {q[i] : i \in 1..Len(q)}

RECURSIVE SelectSeqIn(_, _)
SelectSeqIn(q, S) ==
    IF q = <<>> THEN <<>>
    ELSE IF Head(q) \in S THEN <<Head(q)>> \o SelectSeqIn(Tail(q), S)
    ELSE SelectSeqIn(Tail(q), S)

slang_platforms ==
    {PyStr(<<"i", "n", "s", "t", "a", "g", "r", "a", "m">>), PyStr(<<"x">>),
     PyStr(<<"r", "e", "d", "d", "i", "t">>)}

\* texts = [(r.get("text") or "") for r in rows
\*          if r.get("platform") in ("instagram","x","reddit")]
texts_of(rs) ==
    LET social == SelectSeqIn(rs, {r \in Range(rs) : Get(r, "platform") \in slang_platforms})
    IN  [i \in 1..Len(social) |-> Or(Get(social[i], "text"), EmptyStr)]

stop ==
    { <<"t", "h", "e">>, <<"a">>, <<"a", "n">>, <<"a", "n", "d">>,
      <<"o", "r">>, <<"f", "o", "r">>, <<"w", "i", "t", "h">>,
      <<"t", "h", "i", "s">>, <<"t", "h", "a", "t">>,
      <<"a", "b", "o", "u", "t">>, <<"f", "r", "o", "m">>,
      <<"i", "n", "t", "o">>, <<"o", "v", "e", "r">>,
      <<"u", "n", "d", "e", "r">>, <<"y", "o", "u", "r">>, <<"o", "u", "r">>,
      <<"t", "h", "e", "i", "r">>, <<"y", "o", "u">>, <<"w", "e">>,
      <<"t", "h", "e", "y">>, <<"o", "f">>, <<"i", "n">>, <<"o", "n">>,
      <<"a", "t">>, <<"t", "o">>, <<"i", "s">>, <<"a", "r", "e">>,
      <<"b", "e">>, <<"w", "a", "s">>, <<"w", "e", "r", "e">>,
      <<"b", "e", "e", "n">>, <<"b", "e", "i", "n", "g">>,
      <<"w", "i", "l", "l">>, <<"w", "o", "u", "l", "d">>, <<"c", "a", "n">>,
      <<"c", "o", "u", "l", "d">>, <<"s", "h", "o", "u", "l", "d">>,
      <<"i", "t">>, <<"i", "t", "s">>, <<"i", "t", "'", "s">>, <<"i", "m">>,
      <<"i", "'", "m">> }

\* The corpus: " ".join(texts).lower() with the noise blanked out.
corpus_of(texts) ==
    strip_noise(Lower(PyStr(JoinWith([i \in 1..Len(texts) |-> texts[i].s], <<" ">>))).s)

\* toks: the words of at least min_len characters that are not stop words.
tokens_of(texts, min_len) ==
    LET found == find_tokens(corpus_of(texts))
    IN  SelectSeqIn(found, {t \in Range(found) : Len(t) >= min_len /\ t \notin stop})

\* " ".join(toks[i:i+n]) for i in range(len(toks)-n+1)
ngrams(toks, n) ==
    [i \in 1..(Len(toks) - n + 1) |-> JoinWith(SubSeq(toks, i, i + n - 1), <<" ">>)]

\* grams: for n in (1,2,3): grams.extend(...)
grams_of(toks) == ngrams(toks, 1) \o ngrams(toks, 2) \o ngrams(toks, 3)

\* The keys of Counter(grams), in insertion order.
RECURSIVE counter_keys(_, _)
counter_keys(grams, seen) ==
    IF grams = <<>> THEN <<>>
    ELSE IF Head(grams) \in seen THEN counter_keys(Tail(grams), seen)
    ELSE <<Head(grams)>> \o counter_keys(Tail(grams), seen \cup {Head(grams)})

\* Counter(grams)[t]
count_of(grams, t) == Cardinality({i \in 1..Len(grams) : grams[i] = t})

\* Counter(grams).items(), in insertion order.
counter_items(grams) ==
    LET keys == counter_keys(grams, {})
    IN  [i \in 1..Len(keys) |-> [term |-> PyStr(keys[i]), count |-> PyInt(count_of(grams, keys[i]))]]

\* sorted(items, key=count, reverse=True): stable, so equal counts keep
\* their insertion order.
RECURSIVE insert_by_count(_, _)
insert_by_count(sorted, x) ==
    IF sorted = <<>> THEN <<x>>
    ELSE IF Head(sorted).count.n >= x.count.n
    THEN <<Head(sorted)>> \o insert_by_count(Tail(sorted), x)
    ELSE <<x>> \o sorted

RECURSIVE sort_by_count(_, _)
sort_by_count(sorted, items) ==
    IF items = <<>> THEN sorted
    ELSE sort_by_count(insert_by_count(sorted, Head(items)), Tail(items))

\* cnt.most_common(top_k) is heapq.nlargest(top_k, items, key=count): the
\* first top_k of the stable descending sort, nothing for top_k <= 0.
most_common(items, k) ==
    SubSeq(sort_by_count(<<>>, items), 1, Min(Max(k, 0), Len(items)))

\* ngram_slang(rows, min_len, top_k).  The result is [err, slang]: err is ""
\* and slang the returned list, or err names the exception: " ".join raises
\* TypeError when a selected text is not a str.
ngram_slang(rs, min_len, k) ==
    IF \E i \in 1..Len(texts_of(rs)) : ~IsStr(texts_of(rs)[i])
    THEN [err |-> "TypeError", slang |-> <<>>]
    ELSE [err |-> "",
          slang |-> most_common(counter_items(grams_of(tokens_of(texts_of(rs), min_len))), k)]

-----------------------------------------------------------------------------
(* ngram_slang: the batches checked *)

\* Batches have 0..MaxSlangRows rows; top_k is the default or 0..MaxTopK.
MaxSlangRows == 2
MaxTopK == 3

SlangTexts ==
    {PyStr(<<"a", "a", "a", " ", "b", "b", "b">>),
     PyStr(<<"b", "b", "b", " ", "a", "a", "a">>),
     PyStr(<<"A", "A", "A", " ", "t", "h", "e", " ", "#", "b", "b", "b", " ", "a", "b">>),
     PyStr(<<"a", "1", "b", "-", "b", " ", "h", "t", "t", "p", ":", "/", "/", "a", " ", "i", "t", "'", "s">>),
     None}

SlangUniverse ==
    {[platform |-> p, text |-> t] :
        p \in {PyStr(<<"x">>), PyStr(<<"r", "e", "d", "d", "i", "t">>)},
        t \in SlangTexts}
    \cup {[platform |-> PyStr(<<"i", "n", "s", "t", "a", "g", "r", "a", "m">>),
           text |-> PyStr(<<"a", "a", "a">>)],
          [platform |-> PyStr(<<"n", "e", "w", "s">>),
           text |-> PyStr(<<"b", "b", "b", " ", "b", "b", "b">>)],
          [text |-> PyStr(<<"b", "b", "b">>)],
          [platform |-> PyStr(<<"x">>)],
          [platform |-> PyStr(<<"x">>), text |-> PyInt(5)]}

InitSlang ==
    /\ NotSlangIdle
    /\ rows \in SeqsUpTo(SlangUniverse, MaxSlangRows)
    /\ top_k \in 0..MaxTopK \cup {top_k_default}
    /\ slang = <<>>
    /\ pc = "loaded"
    /\ err = ""

\* "slang_candidates": ngram_slang(rows)
NgramSlang ==
    /\ pc = "loaded"
    /\ slang' = ngram_slang(rows, min_len_default, top_k).slang
    /\ err' = ngram_slang(rows, min_len_default, top_k).err
    /\ pc' = IF ngram_slang(rows, min_len_default, top_k).err = "" THEN "mined" ELSE "raised"
    /\ UNCHANGED <<notSlangVars, rows, top_k>>

NextSlang == NgramSlang

SpecSlang == InitSlang /\ [][NextSlang]_vars

-----------------------------------------------------------------------------
(* ngram_slang: properties *)

\* The token stream the n-grams are taken from.
Corpus == tokens_of(texts_of(rows), min_len_default)

\* The number of words of an n-gram.
WordsIn(term) == 1 + Cardinality({i \in 1..Len(term) : term[i] = " "})

\* The token position at which an n-gram first starts in the corpus.
FirstStart(term) ==
    CHOOSE i \in 1..Len(Corpus) :
        /\ i + WordsIn(term) - 1 <= Len(Corpus)
        /\ JoinWith(SubSeq(Corpus, i, i + WordsIn(term) - 1), <<" ">>) = term
        /\ \A j \in 1..(i - 1) :
               \/ j + WordsIn(term) - 1 > Len(Corpus)
               \/ JoinWith(SubSeq(Corpus, j, j + WordsIn(term) - 1), <<" ">>) # term

FirstEnd(term) == FirstStart(term) + WordsIn(term) - 1

\* t first occurs in the corpus before u does: it starts earlier and it
\* ends earlier.
OccursBefore(t, u) ==
    FirstStart(t) < FirstStart(u) /\ FirstEnd(t) < FirstEnd(u)

\* C11: ngram_slang returns at most top_k pairs, sorted descending by
\* count, and of two n-grams of equal count (of any lengths 1, 2, 3) the one
\* that first occurs earlier in the corpus is never listed after the other.
C11_TiesInCorpusOrder ==
    pc = "mined" =>
        /\ Len(slang) <= top_k
        /\ \A i \in 1..(Len(slang) - 1) : slang[i].count.n >= slang[i + 1].count.n
        /\ \A i, j \in Indices(slang) :
               (i < j /\ slang[i].count = slang[j].count)
                   => ~OccursBefore(slang[j].term.s, slang[i].term.s)

-----------------------------------------------------------------------------
(* md_to_docx and add_text_with_links (04_markdown_to_docx.py) *)

\* str.splitlines(), over the line terminator the model uses ("\n"): the
\* text up to each terminator, and a last line only when it is not empty.
RECURSIVE LineEnd(_)
LineEnd(t) == IF t = <<>> \/ Head(t) = "\n" THEN 0 ELSE 1 + LineEnd(Tail(t))

RECURSIVE splitlines(_)
splitlines(t) ==
    IF t = <<>> THEN <<>>
    ELSE <<SubSeq(t, 1, LineEnd(t))>> \o splitlines(Drop(t, LineEnd(t) + 1))

\* U+0000, one of the characters XML cannot hold: it neither ends a line
\* nor counts as whitespace, so it stays in the text of its line.
NUL == "\\0"

\* python-docx writes a text into the document's XML tree (paragraph.add_run
\* behind add_paragraph and add_heading, t.text in add_hyperlink), which
\* raises ValueError for a text XML cannot hold.
xml_compatible(text) == \A i \in 1..Len(text) : text[i] # NUL

\* The runs of a paragraph.
PlainRun(text) == [run |-> "plain", text |-> text, target |-> <<>>]
LinkRun(url, text) == [run |-> "link", text |-> text, target |-> url]

\* The length of the match of URL_RE = (https?://[^\s)]+) at the start of
\* t, 0 when it does not match there.
UrlLen(t) ==
    IF StartsWith(t, <<"h", "t", "t", "p", "s", ":", "/", "/">>) /\ RunLen("u", Drop(t, 8)) >= 1
    THEN 8 + RunLen("u", Drop(t, 8))
    ELSE IF StartsWith(t, <<"h", "t", "t", "p", ":", "/", "/">>) /\ RunLen("u", Drop(t, 7)) >= 1
    THEN 7 + RunLen("u", Drop(t, 7))
    ELSE 0

\* paragraph.add_run(before) when before is not empty.
run_if_any(before) == IF before = <<>> THEN <<>> ELSE <<PlainRun(before)>>

\* add_text_with_links from a position on: text is what is left to scan,
\* before the text since the last match.
RECURSIVE links_from(_, _)
links_from(text, before) ==
    IF text = <<>> THEN run_if_any(before)
    ELSE IF UrlLen(text) > 0
    THEN run_if_any(before)
         \o <<LinkRun(SubSeq(text, 1, UrlLen(text)), SubSeq(text, 1, UrlLen(text)))>>
         \o links_from(Drop(text, UrlLen(text)), <<>>)
    ELSE links_from(Tail(text), Append(before, Head(text)))

\* add_text_with_links(paragraph, text): the runs it appends.
add_text_with_links(text) == links_from(text, <<>>)

\* The blocks of the document: a paragraph with its style and its runs.
\* text is the string the block was made from.
Block(kind, level, text, spans) ==
    [kind |-> kind, level |-> level, text |-> text, spans |-> spans]

\* doc.add_paragraph("")
BlankSeparator == Block("BlankSeparator", 0, <<>>, <<>>)

\* doc.add_heading(text, level): one paragraph with the text as one run.
Heading(level, text) == Block("Heading", level, text, run_if_any(text))

\* doc.add_paragraph(style=doc.styles["List Bullet"]) + add_text_with_links
BulletListItem(text) == Block("BulletListItem", 0, text, add_text_with_links(text))

\* doc.add_paragraph(style=doc.styles["List Number"]) + add_text_with_links
NumberedListItem(text) == Block("NumberedListItem", 0, text, add_text_with_links(text))

\* add_paragraph_with_links(doc, line)
Paragraph(text) == Block("Paragraph", 0, text, add_text_with_links(text))

\* A variant that also takes an indented "# " as a heading.
heading_level_indented(line) ==
    IF StartsWith(LStrip(line), <<"#", " ">>) THEN 1
    ELSE IF StartsWith(LStrip(line), <<"#", "#", " ">>) THEN 2
    ELSE IF StartsWith(LStrip(line), <<"#", "#", "#", " ">>) THEN 3
    ELSE 0

\* The heading tests: line.startswith("# "), ("## "), ("### "); 0 when the
\* line is no heading.
heading_level(line) ==
    IF StartsWith(line, <<"#", " ">>) THEN 1
    ELSE IF StartsWith(line, <<"#", "#", " ">>) THEN 2
    ELSE IF StartsWith(line, <<"#", "#", "#", " ">>) THEN 3
    ELSE 0

\* line.lstrip().startswith("- ")
is_bullet(line) == StartsWith(LStrip(line), <<"-", " ">>)

\* The length of the match of ^\s*\d+\.\s at the start of line, 0 when it
\* does not match.
numbered_prefix(line) ==
    IF /\ RunLen("d", LStrip(line)) >= 1
       /\ Len(LStrip(line)) >= RunLen("d", LStrip(line)) + 2
       /\ LStrip(line)[RunLen("d", LStrip(line)) + 1] = "."
       /\ IsSpace(LStrip(line)[RunLen("d", LStrip(line)) + 2])
    THEN (Len(line) - Len(LStrip(line))) + RunLen("d", LStrip(line)) + 2
    ELSE 0

is_numbered(line) == numbered_prefix(line) > 0

\* The block one iteration of the loop adds for line = raw.rstrip().
block_of(line) ==
    IF Strip(line) = <<>> THEN BlankSeparator
    ELSE IF heading_level(line) > 0
    THEN Heading(heading_level(line), Strip(Drop(line, heading_level(line) + 1)))
    ELSE IF is_bullet(line) THEN BulletListItem(Strip(Drop(LStrip(line), 2)))
    ELSE IF is_numbered(line) THEN NumberedListItem(Strip(Drop(line, numbered_prefix(line))))
    ELSE Paragraph(line)

\* bullet_mode after the iteration: False after a blank line, a heading or
\* a paragraph, True after a bullet, left as it was after a numbered line.
mode_after(line, mode) ==
    IF Strip(line) = <<>> THEN FALSE
    ELSE IF heading_level(line) > 0 THEN FALSE
    ELSE IF is_bullet(line) THEN TRUE
    ELSE IF is_numbered(line) THEN mode
    ELSE FALSE

\* Whether adding the block raises: the text of a heading goes to
\* add_heading, that of a list item or paragraph to add_run and
\* add_hyperlink piece by piece; a blank line adds the empty text.
add_raises(block) == ~xml_compatible(block.text)

\* md_to_docx(md_text), for a str, raises ValueError at the first line
\* whose block cannot be added.
md_to_docx_raises(text) ==
    \E k \in 1..Len(splitlines(text)) : add_raises(block_of(RStrip(splitlines(text)[k])))

\* md_to_docx(md_text), for a str: the blocks of the returned document,
\* when it returns.
md_to_docx(text) ==
    [k \in 1..Len(splitlines(text)) |-> block_of(RStrip(splitlines(text)[k]))]

-----------------------------------------------------------------------------
(* md_to_docx: the texts checked *)

\* A text has 0..MaxLines lines, each ended by "\n" except perhaps the last.
MaxLines == 2

MdLines ==
    { <<>>,
      <<" ">>,
      <<"#", " ", "T">>,
      <<"#", "#", " ", "T">>,
      <<"#", "#", "#", " ", "T">>,
      <<"#", "#", "#", "#", " ", "T">>,
      <<" ", "#", " ", "T">>,
      <<"#", "T">>,
      <<"a", "#", "b">>,
      <<"-", " ", "b">>,
      <<" ", "-", " ", "b">>,
      <<"-", "b">>,
      <<"3", ".", " ", "c">>,
      <<" ", "1", "2", ".", "\t", "c">>,
      <<"1", ".", "c">>,
      <<"#", " ">>,
      <<"-", " ">>,
      <<"1", ".", " ">>,
      <<"#", " ", " ", "T", " ">>,
      <<"a", " ">>,
      <<" ", "a">>,
      <<"#", " ", "h", "t", "t", "p", ":", "/", "/", "u">>,
      <<"-", " ", "s", " ", "h", "t", "t", "p", "s", ":", "/", "/", "u", ")", " ", "x">>,
      <<"h", "t", "t", "p", ":", "/", "/", "u", " ", "h", "t", "t", "p", "s", ":", "/", "/", "v">>,
      <<"h", "t", "t", "p", ":", "/", "/">>,
      <<"1", ".", " ", "h", "t", "t", "p", "s", ":", "/", "/", "v", ".">>,
      <<"-", " ", "#", " ", "T">>,
      <<"#", " ", "-", " ", "b">>,
      <<"a", NUL, "b">>,
      <<"#", " ", "T", NUL>>,
      <<"-", " ", "h", "t", "t", "p", ":", "/", "/", "u", NUL>> }

\* The lines joined, each followed by "\n".
RECURSIVE Unlines(_)
Unlines(ls) == IF ls = <<>> THEN <<>> ELSE Head(ls) \o <<"\n">> \o Unlines(Tail(ls))

\* The text without its last "\n".
Chomp(t) == IF t = <<>> THEN t ELSE SubSeq(t, 1, Len(t) - 1)

MdTexts ==
    {PyStr(Unlines(ls)) : ls \in SeqsUpTo(MdLines, MaxLines)}
    \cup {PyStr(Chomp(Unlines(ls))) : ls \in SeqsUpTo(MdLines, MaxLines)}

InitRender ==
    /\ NotRenderIdle
    /\ md_text \in MdTexts \cup {None}
    /\ line_no = 0
    /\ doc = <<>>
    /\ bullet_mode = FALSE
    /\ pc = "loaded"
    /\ err = ""

\* doc = Document(); bullet_mode = False; md_text.splitlines(), which
\* raises AttributeError when md_text is no str.
MdToDocxBegin ==
    /\ pc = "loaded"
    /\ IF IsStr(md_text)
       THEN pc' = "rendering" /\ err' = ""
       ELSE pc' = "raised" /\ err' = "AttributeError"
    /\ doc' = <<>>
    /\ bullet_mode' = FALSE
    /\ UNCHANGED <<notRenderVars, md_text, line_no>>

\* One iteration of `for raw in md_text.splitlines()`: the block of the line
\* is added, or the python-docx call raises ValueError, which leaves
\* md_to_docx; the document under construction is lost with it.
MdToDocxLine ==
    /\ pc = "rendering"
    /\ line_no < Len(splitlines(md_text.s))
    /\ \E line \in {RStrip(splitlines(md_text.s)[line_no + 1])} :
        IF add_raises(block_of(line))
        THEN /\ pc' = "raised"
             /\ err' = "ValueError"
             /\ UNCHANGED <<doc, bullet_mode, line_no>>
        ELSE /\ doc' = Append(doc, block_of(line))
             /\ bullet_mode' = mode_after(line, bullet_mode)
             /\ line_no' = line_no + 1
             /\ UNCHANGED <<pc, err>>
    /\ UNCHANGED <<notRenderVars, md_text>>

\* return doc
MdToDocxReturn ==
    /\ pc = "rendering"
    /\ line_no = Len(splitlines(md_text.s))
    /\ pc' = "rendered"
    /\ UNCHANGED <<notRenderVars, renderVars, err>>

NextRender == MdToDocxBegin \/ MdToDocxLine \/ MdToDocxReturn

SpecRender == InitRender /\ [][NextRender]_vars

-----------------------------------------------------------------------------
(* md_to_docx: properties *)

\* The input lines of the text under check.
InputLines == splitlines(md_text.s)

\* The number of digits in front of a '.' and a whitespace at the start of
\* l, 0 when l does not start with digits, '.', whitespace.
NumberDigits(l) ==
    IF \E d \in 1..(Len(l) - 2) :
           /\ \A i \in 1..d : IsDigit(l[i])
           /\ l[d + 1] = "."
           /\ IsSpace(l[d + 2])
    THEN CHOOSE d \in 1..(Len(l) - 2) :
           /\ \A i \in 1..d : IsDigit(l[i])
           /\ l[d + 1] = "."
           /\ IsSpace(l[d + 2])
    ELSE 0

\* The kind, level and text of the block the rules give for a line l, the
\* first matching rule deciding: blank after trimming; prefix "# ", "## ",
\* "### "; "- " after left-trim; digits, '.', whitespace after left-trim;
\* any other line.
Shaped(kind, level, text) == [kind |-> kind, level |-> level, text |-> text]

RuleBlock(l) ==
    IF \A i \in 1..Len(l) : IsSpace(l[i]) THEN Shaped("BlankSeparator", 0, <<>>)
    ELSE IF StartsWith(l, <<"#", " ">>) THEN Shaped("Heading", 1, Drop(l, 2))
    ELSE IF StartsWith(l, <<"#", "#", " ">>) THEN Shaped("Heading", 2, Drop(l, 3))
    ELSE IF StartsWith(l, <<"#", "#", "#", " ">>) THEN Shaped("Heading", 3, Drop(l, 4))
    ELSE IF StartsWith(LStrip(l), <<"-", " ">>)
    THEN Shaped("BulletListItem", 0, Drop(LStrip(l), 2))
    ELSE IF NumberDigits(LStrip(l)) > 0
    THEN Shaped("NumberedListItem", 0, Drop(LStrip(l), NumberDigits(LStrip(l)) + 2))
    ELSE Shaped("Paragraph", 0, l)

ShapeOf(b) == Shaped(b.kind, b.level, b.text)

\* The rule's block with the text of a heading or list item trimmed.
Trimmed(b) == IF b.kind = "Paragraph" THEN b ELSE [b EXCEPT !.text = Strip(@)]

\* C12 as stated: one block per input line, in line order, its kind given by
\* the first rule the line matches, its text the remainder after the marker
\* (the full line for a paragraph).
C12_OneBlockPerLine ==
    pc = "rendered" =>
        /\ Len(doc) = Len(InputLines)
        /\ \A k \in 1..Len(doc) : ShapeOf(doc[k]) = RuleBlock(InputLines[k])

\* C12, amended: one block per input line, in line order; the rules are
\* applied to the line without its trailing whitespace, the text of a heading
\* or list item is the remainder trimmed on both sides, and a paragraph
\* carries the right-trimmed line.
C12_OneBlockPerTrimmedLine ==
    pc \in {"rendering", "rendered"} =>
        /\ Len(doc) = line_no
        /\ pc = "rendered" => line_no = Len(InputLines)
        /\ \A k \in 1..Len(doc) :
               ShapeOf(doc[k]) = Trimmed(RuleBlock(RStrip(InputLines[k])))

\* A rendered text with a heading line that ends in whitespace and a
\* numbered line.
C12_Witness ==
    /\ pc = "rendered"
    /\ \E k, j \in 1..Len(doc) :
           /\ doc[k].kind = "Heading"
           /\ InputLines[k] # RStrip(InputLines[k])
           /\ doc[j].kind = "NumberedListItem"
           /\ doc[j].text = <<"c">>

\* C13: the list mode after a line is given by the kind of that line alone:
\* bullet after a bullet line, and not bullet (none, or numbered) after a
\* blank, heading, paragraph or numbered line, whatever came before.
C13_ModeFromLastLine ==
    (pc \in {"rendering", "rendered"} /\ Len(doc) > 0) =>
        bullet_mode = (doc[Len(doc)].kind = "BulletListItem")

\* The position in the block's text at which span i starts, less one.
Offset(spans, i) == SumSeq([j \in 1..(i - 1) |-> Len(spans[j].text)])

RECURSIVE Concat(_)
Concat(qs) == IF qs = <<>> THEN <<>> ELSE Head(qs) \o Concat(Tail(qs))

\* spans is the left-to-right split of text by the matches of the URL
\* pattern: the span texts give back the text; a link is a match of the
\* pattern at its position, targeting the URL it shows; a plain run is not
\* empty, holds the start of no match, and is not followed by another
\* plain run.
IsUrlSplit(text, spans) ==
    /\ Concat([i \in 1..Len(spans) |-> spans[i].text]) = text
    /\ \A i \in 1..Len(spans) :
           IF spans[i].run = "link"
           THEN /\ spans[i].target = spans[i].text
                /\ UrlLen(Drop(text, Offset(spans, i))) = Len(spans[i].text)
           ELSE /\ spans[i].text # <<>>
                /\ \A j \in 1..Len(spans[i].text) :
                       UrlLen(Drop(text, Offset(spans, i) + j - 1)) = 0
                /\ i < Len(spans) => spans[i + 1].run = "link"

\* C14: the spans of every block with text (heading, bullet item, numbered
\* item, paragraph) are the split of its text by the URL matches.
C14_SpansSplitTextAtUrls ==
    \A k \in 1..Len(doc) :
        doc[k].kind # "BlankSeparator" => IsUrlSplit(doc[k].text, doc[k].spans)

\* C15: rendering a string never raises, and while it renders the loop has
\* a line to process or returns; the returned document has one block per
\* line, none for the empty string, and a Paragraph for every line that
\* matches no structural pattern.
C15_NeverRaises ==
    IsStr(md_text) =>
        /\ pc # "raised" /\ err = ""
        /\ pc = "rendering" => line_no <= Len(InputLines)
        /\ pc = "rendered" =>
               /\ Len(doc) = Len(InputLines)
               /\ md_text.s = <<>> => doc = <<>>
               /\ \A k \in 1..Len(doc) :
                      RuleBlock(InputLines[k]).kind = "Paragraph"
                          => doc[k].kind = "Paragraph"

-----------------------------------------------------------------------------
(* 01_ingest.py: __main__ *)

\* The sources in the order __main__ calls their ingest, and their raw
\* files in the order sorted(RAW.glob(...)) lists them.
Sources == <<"instagram", "x", "reddit", "news", "trends">>
SortedFiles == <<"instagram", "news", "reddit", "trends", "x">>
SourceSet == {Sources[i] : i \in 1..Len(Sources)}

\* How the configuration files load:
\*   "ok"        each of the three loads as a mapping;
\*   "missing"   one of them does not exist: load_config_yaml raises
\*               FileNotFoundError;
\*   "creators", "hashtags", "sources"
\*               that file loads, but its top level is a list or a string,
\*               which has no .get.
Configs == {"ok", "missing", "creators", "hashtags", "sources"}

\* The lines of a source's block that stand before its try:
\*   ig_creators = creators_cfg.get("instagram", [])
\*   ig_hashtags = hashtags_cfg.get("instagram", [])
\*   x_cfg = sources_cfg.get("x", {})
\* raise AttributeError on a configuration that is not a mapping.
raises_before_try(src, cfg) ==
    \/ src = "instagram" /\ cfg \in {"creators", "hashtags"}
    \/ src = "x" /\ cfg = "sources"

\* How a source's ingest can go:
\*   "none"   every unit is fetched and the raw file is written;
\*   "inner"  a fetch fails inside the adapter, which catches the exception
\*            (the per-creator, per-subreddit, per-feed try of
\*            ingest_instagram / ingest_reddit / ingest_news, the try around
\*            the body of ingest_x, the give-up of build_and_fetch) and
\*            writes the raw file with the rows it has;
\*   "outer"  an exception leaves the adapter, or the evaluation of its
\*            arguments inside the try of __main__, before save_jsonl;
\*   "save"   orjson.dumps raises on a row inside save_jsonl, which has
\*            opened the raw file and written the rows before that one.
Faults == {"none", "inner", "outer", "save"}

\* A file: whether it exists, whether it was opened for writing and left
\* without content, and the records in it.
NoFile == [exists |-> FALSE, empty |-> FALSE, rows |-> <<>>]
File(rs) == [exists |-> TRUE, empty |-> FALSE, rows |-> rs]
EmptyFile == [exists |-> TRUE, empty |-> TRUE, rows |-> <<>>]

\* The records a source's upstream delivers in this run, one per unit (an
\* item of the X response, a creator, a subreddit, a feed, a term group),
\* and the records an earlier run of the same day left in its raw file.
fetched(src, n) == [k \in 1..n |-> [platform |-> src, id |-> k]]
left_over(src) == <<[platform |-> src, id |-> 0]>>

\* The error placeholder build_and_fetch returns for a term it gave up on.
placeholder(term) ==
    [platform |-> "trends", term |-> term, ts |-> None, value |-> None, error |-> "error"]

\* The first unit that fails, n + 1 when none does.
first_lost(n, lost) == CHOOSE k \in lost \cup {n + 1} : \A j \in lost \cup {n + 1} : k <= j

\* The rows an adapter has when it reaches save_jsonl after the fetch of the
\* units in lost failed inside it:
\*   ingest_x          the rows appended before the exception left the try;
\*   ingest_trends     the records of the groups answered and the
\*                     placeholders of the groups given up, in group order;
\*   the others        the rows of the units whose fetch succeeded.
rows_after_inner_fault(src, n, lost) ==
    IF src = "x" THEN SubSeq(fetched(src, n), 1, first_lost(n, lost) - 1)
    ELSE IF src = "trends"
    THEN [k \in 1..n |-> IF k \in lost THEN placeholder(k) ELSE fetched(src, n)[k]]
    ELSE SelectSeq(fetched(src, n), LAMBDA r : r.id \notin lost)

\* The rows save_jsonl has written when orjson.dumps raises on the row of
\* the first unit in lost.
rows_saved(src, n, lost) == SubSeq(fetched(src, n), 1, first_lost(n, lost) - 1)

\* data/raw after ingest_<src> ran with the given fault.
ingest(files, src, f, n, lost) ==
    CASE f = "outer" -> files
      [] f = "inner" -> [files EXCEPT ![src] = File(rows_after_inner_fault(src, n, lost))]
      [] f = "save" -> [files EXCEPT ![src] = File(rows_saved(src, n, lost))]
      [] f = "none" -> [files EXCEPT ![src] = File(fetched(src, n))]

\* The block of a source in __main__:
\*   <the lines before the try>
\*   try: ingest_<src>(...)
\*   except Exception as e: print("[WARN] ...")
\* the run goes on whatever happened inside the try.
after_source(src, cfg, f) ==
    IF raises_before_try(src, cfg) THEN "raised" ELSE "ingesting"

\* combined: the rows of today's raw files, in sorted file order.
RECURSIVE combine(_, _)
combine(files, names) ==
    IF names = <<>> THEN <<>>
    ELSE (IF files[Head(names)].exists THEN files[Head(names)].rows ELSE <<>>)
         \o combine(files, Tail(names))

\* The sources whose rows carry values of the upstream JSON as they came:
\* ingest_instagram copies "hashtags" and the counters, ingest_x the
\* counters; the others build their rows from strings.
CopiesUpstream == {"instagram", "x"}

\* orjson.dumps raises on a value nested beyond its recursion limit.  A row
\* that holds a value nested as deep as the limit leaves room for in a row
\* is dumped by save_jsonl and loaded back by the combine step, and is one
\* level too deep inside the list `combined`.
too_deep(r, deep) == r.platform = deep /\ "id" \in DOMAIN r

\* Whether orjson.dumps(combined) raises (TypeError: Recursion limit reached).
dumps_raises(rs, deep) == \E i \in 1..Len(rs) : too_deep(rs[i], deep)

-----------------------------------------------------------------------------
(* 01_ingest.py: the runs checked *)

\* Each source has 0..MaxPerSource units.
MaxPerSource == 2

InitIngest ==
    /\ NotIngestIdle
    /\ config \in Configs
    /\ fault = [s \in SourceSet |-> "pending"]
    /\ per_source \in 0..MaxPerSource
    /\ failing \in SUBSET (1..per_source)
    /\ per_source > 0 => failing # {}
    /\ stale \in SourceSet \cup {""}
    /\ nested \in CopiesUpstream \cup {""}
    /\ raw_files = [s \in SourceSet |-> IF s = stale THEN File(left_over(s)) ELSE NoFile]
    /\ attempted = <<>>
    /\ all_json = NoFile
    /\ pc = "loaded"
    /\ err = ""

\* creators_cfg / hashtags_cfg / sources_cfg = load_config_yaml(...), which
\* raises FileNotFoundError for a missing file; nothing catches it.
LoadConfig ==
    /\ pc = "loaded"
    /\ IF config = "missing"
       THEN pc' = "raised" /\ err' = "FileNotFoundError"
       ELSE pc' = "ingesting" /\ err' = ""
    /\ UNCHANGED <<notIngestVars, ingestVars>>

\* The block of the i-th source: Instagram, X, Reddit, News, Trends.
IngestSource(i) ==
    /\ pc = "ingesting"
    /\ Len(attempted) = i - 1
    /\ \E f \in Faults :
        /\ pc' = after_source(Sources[i], config, f)
        /\ IF raises_before_try(Sources[i], config)
           THEN /\ err' = IF pc' = "raised" THEN "AttributeError" ELSE ""
                /\ UNCHANGED <<attempted, fault, raw_files>>
           ELSE /\ err' = IF pc' = "raised" THEN "Exception" ELSE ""
                /\ attempted' = Append(attempted, Sources[i])
                /\ fault' = [fault EXCEPT ![Sources[i]] = f]
                /\ raw_files' = ingest(raw_files, Sources[i], f, per_source, failing)
    /\ UNCHANGED <<notIngestVars, config, per_source, failing, stale, nested, all_json>>

\* Combine today's files and write data/all_<date>.json:
\*   with open(out_path, "wb") as f: f.write(orjson.dumps(combined, ...))
\* opens the file, which creates or empties it, before orjson.dumps runs;
\* when that raises the file is left empty and the exception ends the run.
Combine ==
    /\ pc = "ingesting"
    /\ Len(attempted) = Len(Sources)
    /\ \E combined \in {combine(raw_files, SortedFiles)} :
        IF dumps_raises(combined, nested)
        THEN all_json' = EmptyFile /\ pc' = "raised" /\ err' = "TypeError"
        ELSE all_json' = File(combined) /\ pc' = "combined" /\ err' = ""
    /\ UNCHANGED <<notIngestVars, config, fault, per_source, failing, stale, nested,
                   raw_files, attempted>>

NextIngest ==
    \/ LoadConfig
    \/ \E i \in 1..Len(Sources) : IngestSource(i)
    \/ Combine

SpecIngest == InitIngest /\ [][NextIngest]_vars

-----------------------------------------------------------------------------
(* 01_ingest.py: properties *)

IsPrefix(p, q) == Len(p) <= Len(q) /\ p = SubSeq(q, 1, Len(p))

\* The records of the units of a source whose fetch did not fail.
Answered(s) == {fetched(s, per_source)[k] : k \in (1..per_source) \ failing}

\* C16: with configuration files that load as mappings, whatever subset of
\* the five sources fails, the run is not aborted: the sources are attempted
\* in order, each after the one before whether that one failed or not, and
\* data/all_<date>.json is written, holding the records of every source that
\* succeeded.  Besides those it holds only what a failed source left in
\* data/raw: the rows its adapter had fetched when it caught the failure or
\* had saved when save_jsonl raised, the error placeholders of trends, and
\* the records of an earlier run of the day when the failed adapter wrote
\* no file.
C16_FailuresNeverAbort ==
    (config = "ok" /\ pc # "loaded") =>
        /\ pc \in {"ingesting", "combined"}
        /\ IsPrefix(attempted, Sources)
        /\ pc = "combined" =>
               /\ attempted = Sources
               /\ all_json.exists
               /\ \A s \in SourceSet :
                      fault[s] = "none" =>
                          Range(fetched(s, per_source)) \subseteq Range(all_json.rows)
               /\ \A r \in Range(all_json.rows) :
                      \/ fault[r.platform] = "none" /\ r \in Range(fetched(r.platform, per_source))
                      \/ fault[r.platform] \in {"inner", "save"} /\ r \in Answered(r.platform)
                      \/ fault[r.platform] = "inner" /\ r \in {placeholder(k) : k \in failing}
                      \/ fault[r.platform] = "outer" /\ stale = r.platform /\ r \in Range(left_over(stale))

-----------------------------------------------------------------------------
(* ui_app.py and the files of the scripts *)

\* The RUN_IDs of the runs started from the UI.
RunIds == {"run1", "run2"}

\* The places the scripts read and write.  01_ingest.py, 02_prepare_context.py
\* and 03_generate_report.py build them from ROOT alone: none of them reads
\* the RUN_ID that run_script puts in their environment.
RAW == <<"data", "raw">>
all_json_path == <<"data", "all_<date>.json">>
CTX_PATH == <<"data", "context", "context.json">>
md_path == <<"data", "outputs", "weekly_brief.md">>
docx_path == <<"data", "outputs", "weekly_brief.docx">>

\* ui_app.latest_output(run_id, name): the path under the run's outputs
\* directory; the code returns None when it does not exist.
OutputNames == {"weekly_brief.md", "weekly_brief.docx"}
latest_output(rid, name) == <<"data", "runs", rid, "outputs", name>>

\* data/raw/<source>_<date>.jsonl, the raw file of a source.
raw_path(s) == Append(RAW, s)

\* The scripts are followed with the first MaxRawFiles sources; the adapters
\* of the others raise before their save_jsonl, which __main__ catches.
MaxRawFiles == 2
RawSources == SubSeq(Sources, 1, MaxRawFiles)
RawSet == {RawSources[i] : i \in 1..Len(RawSources)}

\* sorted(RAW.glob(...)): the raw files in the order of their names.
SortedRaw ==
    [i \in 1..Len(SelectSeq(SortedFiles, LAMBDA s : s \in RawSet)) |->
        raw_path(SelectSeq(SortedFiles, LAMBDA s : s \in RawSet)[i])]

Paths ==
    {raw_path(s) : s \in RawSet}
    \cup {all_json_path, CTX_PATH, md_path, docx_path}
    \cup {latest_output(rid, name) : rid \in RunIds, name \in OutputNames}

\* A file: whether it exists, the RUN_ID of the run that wrote it last, and
\* whether it is empty: opened for writing by a script that has not, or not
\* yet, written the content.
Missing == [exists |-> FALSE, by |-> "", empty |-> FALSE]
Written(rid) == [exists |-> TRUE, by |-> rid, empty |-> FALSE]
Truncated(rid) == [exists |-> TRUE, by |-> rid, empty |-> TRUE]

\* An access of a script run by rid: it opens a file last written by `by`.
Access(rid, op, path, files) == [run |-> rid, op |-> op, path |-> path, by |-> files[path].by]

\* files after the script of rid wrote the content of the path.
write(files, path, rid) == [files EXCEPT ![path] = Written(rid)]

\* files after the script of rid opened the path for writing: open(path,
\* "wb") and Path.write_text create the file or empty it.
truncate(files, path, rid) == [files EXCEPT ![path] = Truncated(rid)]

\* The steps of the UI that run a script, in the order of Run All.
Steps == {"ingest", "prepare", "report"}

\* A script as a process: the step it belongs to, the place it is at, and
\*   n     at "adapter": the number of the source whose block comes next;
\*         at "open" and "dump" of 01_ingest.py: 1 when the combine step
\*         read a raw file, 0 when there was none;
\*   todo  at "read": the raw files the glob found, not yet read;
\*   rc    at "done": the exit code.
Proc(step, at, n, todo, rc) == [step |-> step, at |-> at, n |-> n, todo |-> todo, rc |-> rc]
NoProc == Proc("", "idle", 0, <<>>, 0)
At(step, at, n) == Proc(step, at, n, <<>>, 0)
Done(step, rc) == Proc(step, "done", 0, <<>>, rc)
Start(step) == IF step = "ingest" THEN At(step, "adapter", 1) ELSE At(step, "load", 0)

\* One move of a script: where it is afterwards, the files afterwards, and
\* the file it opened.
Move(p, files, acc) == [proc |-> p, fs |-> files, acc |-> acc]

\* The file a script reads, and the file it writes with open-then-dump.
in_path(step) == IF step = "prepare" THEN all_json_path ELSE CTX_PATH
out_path(step) ==
    CASE step = "ingest" -> all_json_path
      [] step = "prepare" -> CTX_PATH
      [] step = "report" -> md_path

\* After the block of the n-th source.
after_adapter(n) ==
    IF n < Len(RawSources) THEN At("ingest", "adapter", n + 1) ELSE At("ingest", "glob", 0)

\* 01_ingest.py up to the combine step.  The block of a source either
\* reaches save_jsonl, which writes the raw file, or ends before it.  An
\* exception leaves __main__ before the first block (a configuration file
\* is missing, lines 368-370, or creators.yaml or hashtags.yaml is not a
\* mapping, lines 373-374) or before the second (sources.yaml is not a
\* mapping, line 381).
adapter_moves(p, files, rid) ==
    {Move(after_adapter(p.n), write(files, raw_path(RawSources[p.n]), rid),
          {Access(rid, "write", raw_path(RawSources[p.n]), files)}),
     Move(after_adapter(p.n), files, {})}
    \cup (IF p.n <= 2 THEN {Move(Done("ingest", 1), files, {})} ELSE {})

\* sorted(RAW.glob(f"*_{date_stamp()}.jsonl")): the raw files of today that
\* exist when the combine step begins.
glob_moves(p, files, rid) ==
    IF SelectSeq(SortedRaw, LAMBDA f : files[f].exists) = <<>>
    THEN {Move(At("ingest", "open", 0), files, {})}
    ELSE {Move(Proc("ingest", "read", 1, SelectSeq(SortedRaw, LAMBDA f : files[f].exists), 0),
               files, {})}

\* with open(p, "rb") as f: the next raw file of the list is read.
read_moves(p, files, rid) ==
    {Move(IF Len(p.todo) = 1 THEN At("ingest", "open", 1)
          ELSE Proc("ingest", "read", 1, Tail(p.todo), 0),
          files, {Access(rid, "read", Head(p.todo), files)})}

\* 02_prepare_context.py and 03_generate_report.py begin with their input:
\* latest_all_json and load_context raise FileNotFoundError when it is
\* missing; else it is read, and an empty file is no JSON.  With the input
\* read, the script reaches the writing of its output, or an exception
\* ends it before (a function of the transform, the model call).
load_moves(p, files, rid) ==
    IF ~files[in_path(p.step)].exists THEN {Move(Done(p.step, 1), files, {})}
    ELSE IF files[in_path(p.step)].empty
    THEN {Move(Done(p.step, 1), files, {Access(rid, "read", in_path(p.step), files)})}
    ELSE {Move(At(p.step, "open", 0), files, {Access(rid, "read", in_path(p.step), files)}),
          Move(Done(p.step, 1), files, {Access(rid, "read", in_path(p.step), files)})}

\* open(out_path, "wb") of 01_ingest.py and 02_prepare_context.py, and the
\* open inside path.write_text of save_markdown: the output exists and is
\* empty.
open_moves(p, files, rid) ==
    {Move(At(p.step, "dump", p.n), truncate(files, out_path(p.step), rid),
          {Access(rid, "write", out_path(p.step), files)})}

\* Where a script goes when its output is written.
after_dump(step) == IF step = "report" THEN At(step, "docx", 0) ELSE Done(step, 0)

\* Whether the dump of the output can raise: orjson.dumps of 01_ingest.py
\* has a row to refuse only when a raw file was read; orjson.dumps of
\* 02_prepare_context.py raises on a record it cannot serialise; the write
\* of save_markdown raises on a text that utf-8 cannot encode.
dump_can_raise(p) == p.step = "ingest" => p.n = 1

\* f.write(orjson.dumps(...)) and the write of path.write_text: the content
\* is written, or the exception leaves the output empty and ends the script.
dump_moves(p, files, rid) ==
    {Move(after_dump(p.step), write(files, out_path(p.step), rid), {})}
    \cup (IF dump_can_raise(p) THEN {Move(Done(p.step, 1), files, {})} ELSE {})

\* md_to_docx(md, docx_path) of 03_generate_report.py: doc.save writes the
\* document, or building it raises.
docx_moves(p, files, rid) ==
    {Move(Done("report", 0), write(files, docx_path, rid),
          {Access(rid, "write", docx_path, files)}),
     Move(Done("report", 1), files, {})}

\* 01_ingest.py
ingest_script(p, files, rid) ==
    CASE p.at = "adapter" -> adapter_moves(p, files, rid)
      [] p.at = "glob" -> glob_moves(p, files, rid)
      [] p.at = "read" -> read_moves(p, files, rid)
      [] p.at = "open" -> open_moves(p, files, rid)
      [] p.at = "dump" -> dump_moves(p, files, rid)

\* 02_prepare_context.py
prepare_script(p, files, rid) ==
    CASE p.at = "load" -> load_moves(p, files, rid)
      [] p.at = "open" -> open_moves(p, files, rid)
      [] p.at = "dump" -> dump_moves(p, files, rid)

\* 03_generate_report.py
report_script(p, files, rid) ==
    CASE p.at = "load" -> load_moves(p, files, rid)
      [] p.at = "open" -> open_moves(p, files, rid)
      [] p.at = "dump" -> dump_moves(p, files, rid)
      [] p.at = "docx" -> docx_moves(p, files, rid)

\* The next moves of the script each step runs.
script(p, files, rid) ==
    CASE p.step = "ingest" -> ingest_script(p, files, rid)
      [] p.step = "prepare" -> prepare_script(p, files, rid)
      [] p.step = "report" -> report_script(p, files, rid)

\* Whether the script of a session is running.
Busy(p) == p.at \notin {"idle", "done"}

\* stream_task: the progress bar shows the name of the task when it starts
\* and the name with a tick when its script has exited with code 0.
Progress(text, tick) == [text |-> text, tick |-> tick]

\* The progress bar when the handler of a step button returns: the Step 3
\* handler goes on to maybe_upload and "Done" when the report script exited
\* with code 0; the others leave the name of the task, ticked on success.
progress_after(step, rc) ==
    IF step = "report" /\ rc = 0 THEN Progress("Done", FALSE)
    ELSE Progress(step, rc = 0)

\* What the page of a session shows: the progress bar, and the exception
\* st.error displays when run_script raised.
page_progress(p) ==
    CASE p.at = "idle" -> Progress("Idle", FALSE)
      [] p.at = "done" -> progress_after(p.step, p.rc)
      [] OTHER -> Progress(p.step, FALSE)
page_error(p) == IF p.at = "done" /\ p.rc # 0 THEN "RuntimeError" ELSE ""

-----------------------------------------------------------------------------
(* ui_app.py: two runs through the step buttons *)

\* Each run presses at most MaxPresses step buttons.
MaxPresses == 2

InitRuns ==
    /\ NotUiIdle
    /\ fs = [p \in Paths |-> Missing]
    /\ presses = [rid \in RunIds |-> 0]
    /\ procs = [rid \in RunIds |-> NoProc]
    /\ accesses = {}
    /\ started = <<>>
    /\ running = FALSE
    /\ failed = ""
    /\ progress = Progress("Idle", FALSE)
    /\ pc = "ui"
    /\ err = ""

\* A step button pressed in the session whose RUN_ID is rid: do_ingest(rid),
\* do_prepare(rid) or do_report(rid) starts the script, and the handler
\* waits in run_script for its output and its exit.  A session runs one
\* handler at a time; the sessions run side by side.
PressStep(rid, step) ==
    /\ pc = "ui"
    /\ ~Busy(procs[rid])
    /\ presses[rid] < MaxPresses
    /\ presses' = [presses EXCEPT ![rid] = @ + 1]
    /\ procs' = [procs EXCEPT ![rid] = Start(step)]
    /\ accesses' = {a \in accesses : a.run # rid}
    /\ UNCHANGED <<notUiVars, fs, started, running, failed, progress, pc, err>>

\* The script of a session makes its next move.  When it is done
\* run_script returns or raises, and the page shows page_progress and
\* page_error; maybe_upload, which follows a successful report, finds
\* nothing under data/runs/<rid>/outputs and only warns.
ScriptStep(rid) ==
    /\ Busy(procs[rid])
    /\ \E m \in script(procs[rid], fs, rid) :
        /\ procs' = [procs EXCEPT ![rid] = m.proc]
        /\ fs' = m.fs
        /\ accesses' = accesses \cup m.acc
    /\ UNCHANGED <<notUiVars, presses, started, running, failed, progress, pc, err>>

NextRuns ==
    \/ \E rid \in RunIds, step \in Steps : PressStep(rid, step)
    \/ \E rid \in RunIds : ScriptStep(rid)

SpecRuns == InitRuns /\ [][NextRuns]_vars

\* C17: no step of a run reads or overwrites a file that the run with the
\* other RUN_ID wrote.
C17_RunsIsolated ==
    \A a \in accesses : a.by \in {"", a.run}

-----------------------------------------------------------------------------
(* ui_app.py: the Run All handler *)

\* The order in which the Run All handler calls do_ingest, do_prepare,
\* do_report and maybe_upload.
Order == <<"ingest", "prepare", "report", "upload">>

\* The RUN_ID of the page on which Run All is pressed, and the RUN_ID of an
\* earlier run whose files may be on disk.
run_id == "run1"
earlier_run == "run2"

\* Never raising: the exit code is ignored.
raises_never(rc) == FALSE

\* run_script: rc = process.wait(); if rc != 0: raise RuntimeError(...)
raises(rc) == rc # 0

\* How upload_docx_to_drive_as_gdoc can end: the credentials cannot be
\* loaded or the client cannot be built, before the report is opened; the
\* request fails after MediaFileUpload opened the report; or the report is
\* uploaded.
Uploads == {"no_client", "request_fails", "uploaded"}

\* What maybe_upload tells the user; it returns normally in every case.
\* docx is whether latest_output found a report, env whether the Drive
\* settings are present and the service account file exists, upload how the
\* upload call ends.
maybe_upload(docx, env, upload) ==
    IF ~docx THEN "warning"
    ELSE IF ~env THEN "info"
    ELSE IF upload = "uploaded" THEN "success" ELSE "error"

\* Whether maybe_upload opens the report: only MediaFileUpload does.
upload_opens(docx, env, upload) == docx /\ env /\ upload # "no_client"

\* The files an earlier run can have left empty: the outputs written with
\* open-then-dump.
CanBeEmpty == {out_path(step) : step \in Steps}

InitRunAll ==
    /\ NotUiIdle
    /\ fs \in [Paths -> {Missing, Written(earlier_run), Truncated(earlier_run)}]
    /\ \A p \in Paths : fs[p].empty => p \in CanBeEmpty
    /\ presses = [rid \in RunIds |-> 0]
    /\ procs = [rid \in RunIds |-> NoProc]
    /\ accesses = {}
    /\ started = <<>>
    /\ running = FALSE
    /\ failed = ""
    /\ progress = Progress("Idle", FALSE)
    /\ pc = "run_all"
    /\ err = ""

\* stream_task begins the next step of the handler: the progress bar shows
\* its name and run_script starts the script.
StartStep(step) ==
    /\ pc = "run_all"
    /\ ~running
    /\ Len(started) < Len(Order)
    /\ step = Order[Len(started) + 1]
    /\ step \in Steps
    /\ started' = Append(started, step)
    /\ running' = TRUE
    /\ procs' = [procs EXCEPT ![run_id] = Start(step)]
    /\ accesses' = {}
    /\ progress' = Progress(step, FALSE)
    /\ UNCHANGED <<notUiVars, fs, presses, failed, pc, err>>

\* The script of the running step has exited.  A non-zero exit code makes
\* run_script raise, which leaves the try block of the handler: st.error
\* shows the message and the handler is over.  Otherwise stream_task ticks
\* the progress bar and the handler goes on.
ScriptExit ==
    /\ pc = "run_all"
    /\ running
    /\ procs[run_id].at = "done"
    /\ running' = FALSE
    /\ failed' = IF procs[run_id].rc # 0 THEN started[Len(started)] ELSE ""
    /\ IF raises(procs[run_id].rc)
       THEN /\ pc' = "error"
            /\ err' = "RuntimeError"
            /\ UNCHANGED progress
       ELSE /\ progress' = Progress(started[Len(started)], TRUE)
            /\ UNCHANGED <<pc, err>>
    /\ UNCHANGED <<notUiVars, fs, presses, procs, accesses, started>>

\* maybe_upload(run_id) looks for the report under data/runs/<run_id>/outputs
\* with Path.exists and tells the user what it did; the message is kept in
\* err.  The report is opened only when the upload gets to MediaFileUpload.
MaybeUpload(env, upload) ==
    /\ pc = "run_all"
    /\ ~running
    /\ Len(started) < Len(Order)
    /\ Order[Len(started) + 1] = "upload"
    /\ started' = Append(started, "upload")
    /\ \E docx \in {latest_output(run_id, "weekly_brief.docx")} :
        /\ accesses' = IF upload_opens(fs[docx].exists, env, upload)
                       THEN {Access(run_id, "read", docx, fs)}
                       ELSE {}
        /\ err' = maybe_upload(fs[docx].exists, env, upload)
    /\ UNCHANGED <<notUiVars, fs, presses, procs, running, failed, progress, pc>>

\* prog.progress(100, text="Done")
RunAllDone ==
    /\ pc = "run_all"
    /\ ~running
    /\ started = Order
    /\ progress' = Progress("Done", FALSE)
    /\ pc' = "done"
    /\ UNCHANGED <<notUiVars, fs, presses, procs, accesses, started, running, failed, err>>

\* The rest of the page, after the handler is over, with or without an
\* error: each of weekly_brief.md and weekly_brief.docx that latest_output
\* finds for the active run is read for its download button.
LatestOutputs ==
    /\ pc \in {"done", "error"}
    /\ accesses' = {Access(run_id, "read", latest_output(run_id, name), fs) :
                       name \in {n \in OutputNames : fs[latest_output(run_id, n)].exists}}
    /\ pc' = "rendered"
    /\ UNCHANGED <<notUiVars, fs, presses, procs, started, running, failed, progress, err>>

NextRunAll ==
    \/ \E step \in Steps : StartStep(step)
    \/ ScriptStep(run_id)
    \/ ScriptExit
    \/ \E env \in BOOLEAN, upload \in Uploads : MaybeUpload(env, upload)
    \/ RunAllDone
    \/ LatestOutputs

SpecRunAll == InitRunAll /\ [][NextRunAll]_vars

\* The artifact a step's script needs from the step before it.
needs(step) ==
    CASE step = "prepare" -> {all_json_path}
      [] step = "report" -> {CTX_PATH}
      [] OTHER -> {}

\* C18: Run All starts its steps strictly in the order ingest, prepare,
\* report, upload; once the script of a step has exited non-zero that step
\* stays the last one started and the progress bar never shows "Done"; and a
\* step whose script succeeded had the artifact of the step before it, with
\* its content.
C18_FailureStopsRunAll ==
    /\ IsPrefix(started, Order)
    /\ failed # "" =>
        /\ started # <<>>
        /\ started[Len(started)] = failed
        /\ ~running
        /\ progress # Progress("Done", FALSE)
        /\ pc \in {"error", "rendered"}
        /\ err = "RuntimeError"
    /\ \A i \in 1..Len(started) :
        (i < Len(started) \/ (~running /\ failed = "")) =>
            \A p \in needs(started[i]) : fs[p].exists /\ ~fs[p].empty
    /\ progress = Progress("Done", FALSE) => started = Order /\ failed = ""

\* The report script failed after ingest and prepare had succeeded in a
\* directory that held no files: the handler is over, the page has been
\* drawn to its end, and the bar still shows the report step.
C18_Witness ==
    /\ started = <<"ingest", "prepare", "report">>
    /\ failed = "report"
    /\ pc = "rendered"
    /\ progress = Progress("report", FALSE)
    /\ ~fs[docx_path].exists

-----------------------------------------------------------------------------
(* 01_ingest.py: build_and_fetch, the retry loop of ingest_trends *)

\* An HTTPError gives up when attempt, already incremented, is at least 6;
\* any other exception when it is more than 2.
http_attempts == 6
other_attempts == 2

\* Giving up on an HTTPError one attempt later.
http_gives_up_late(n) == n > http_attempts

\* except HTTPError: if attempt >= 6
http_gives_up(n) == n >= http_attempts

\* except Exception: if attempt > 2
other_gives_up(n) == n > other_attempts

\* The exception a failed request raises: an HTTPError with the status code
\* of its response (None when it has none), or another Exception with its
\* text, which may be empty.
HTTPError(code) == [kind |-> "http", code |-> code]
OtherError(text) == [kind |-> "other", text |-> text]
Exceptions ==
    {HTTPError(code) : code \in {None, PyInt(429)}}
    \cup {OtherError(text) : text \in {"", "timeout"}}

\* f"HTTP {code} after retries" and str(ex)
error_text(ex) ==
    IF ex.kind = "http" THEN [text |-> <<"HTTP ", ex.code, " after retries">>]
    ELSE [text |-> <<ex.text>>]

\* [{"term": t, "ts": None, "value": None, "error": ...} for t in group]
placeholders(g, ex) ==
    [i \in 1..Len(g) |-> [term |-> g[i], ts |-> None, value |-> None, error |-> error_text(ex)]]

\* Whether the exception, with attempt already incremented to n, ends the loop.
gives_up(ex, n) ==
    IF ex.kind = "http" THEN http_gives_up(n) ELSE other_gives_up(n)

\* The value pandas holds for a missing number.
NaN == [nan |-> TRUE]

\* The records of a successful request whose data frame has the given rows:
\* one per row and term, skipping a missing value and writing 0 for NaN.
RECURSIVE row_records(_, _, _)
row_records(g, ts, row) ==
    IF g = <<>> THEN <<>>
    ELSE (IF row[Head(g)] = None THEN <<>>
          ELSE <<[term |-> Head(g), ts |-> ts,
                  value |-> IF row[Head(g)] = NaN THEN PyInt(0) ELSE row[Head(g)]]>>)
         \o row_records(Tail(g), ts, row)

RECURSIVE normalise(_, _)
normalise(g, df) ==
    IF df = <<>> THEN <<>>
    ELSE row_records(g, Len(df), Head(df)) \o normalise(g, Tail(df))

\* Never finding an entry.
load_cache_miss(c) == [is_none |-> TRUE, records |-> <<>>]

\* load_cache(cp): the records of a readable entry, None otherwise (is_none
\* says which).
NoEntry == [state |-> "absent"]
Unreadable == [state |-> "unreadable"]
Cached(records) == [state |-> "readable", records |-> records]
load_cache(c) ==
    IF c.state = "readable" THEN [is_none |-> FALSE, records |-> c.records]
    ELSE [is_none |-> TRUE, records |-> <<>>]

\* What cp.write_text(json.dumps(data, ...)) can do: write the whole text;
\* raise before the file is open (the path cannot be opened), which leaves
\* the entry as it was; or raise after the open created or emptied the file
\* (a term utf-8 cannot encode, a full disk), which leaves an empty or
\* cut-off entry.
WriteOutcomes == {"written", "not_opened", "cut_off"}

\* save_cache(cp, data): whatever the write raises is passed over in silence.
save_cache(c, data, outcome) ==
    IF outcome = "written" THEN Cached(data)
    ELSE IF outcome = "not_opened" THEN c
    ELSE Unreadable

\* The terms, the term groups and the data frames of the check: a group has
\* at most MaxTerms terms, a data frame at most MaxDfCells values (rows times
\* terms).
MaxTerms == 2
MaxDfCells == 2
TermNames == <<"t1", "t2", "t3", "t4", "t5", "t6">>
Groups ==
    {SubSeq(TermNames, a, b) : a \in 1..MaxTerms, b \in 1..MaxTerms} \ {<<>>}
Values == {None, NaN, PyInt(7)}
DataFrames(g) ==
    UNION {[1..n -> [Range(g) -> Values]] :
               n \in {k \in 0..MaxDfCells : k * Len(g) <= MaxDfCells}}

InitTrends ==
    /\ NotTrendsIdle
    /\ group \in Groups
    /\ cache \in {NoEntry, Unreadable, Cached(<<>>),
                 Cached(<<[term |-> "t1", ts |-> 1, value |-> PyInt(7)]>>)}
    /\ attempt = 0
    /\ fetches = 0
    /\ failures = <<>>
    /\ result = <<>>
    /\ pc = "called"
    /\ err = ""

\* cached = load_cache(cp); if cached is not None: return cached
TryCache ==
    /\ pc = "called"
    /\ IF ~load_cache(cache).is_none
       THEN /\ result' = load_cache(cache).records
            /\ pc' = "returned"
       ELSE /\ pc' = "fetching"
            /\ UNCHANGED result
    /\ UNCHANGED <<notTrendsVars, group, cache, attempt, fetches, failures, err>>

\* The request succeeds: the records are saved to the cache, as far as the
\* write gets, and returned.
FetchOk ==
    \E df \in DataFrames(group), outcome \in WriteOutcomes :
    /\ pc = "fetching"
    /\ fetches' = fetches + 1
    /\ cache' = save_cache(cache, normalise(group, df), outcome)
    /\ result' = normalise(group, df)
    /\ pc' = "returned"
    /\ UNCHANGED <<notTrendsVars, group, attempt, failures, err>>

\* The request raises ex: attempt is incremented, and the loop either gives
\* up, returning one placeholder per term, or sleeps before the next try.
FetchFails(ex) ==
    /\ pc = "fetching"
    /\ fetches' = fetches + 1
    /\ attempt' = attempt + 1
    /\ failures' = Append(failures, ex)
    /\ IF gives_up(ex, attempt + 1)
       THEN /\ result' = placeholders(group, ex)
            /\ pc' = "returned"
       ELSE /\ pc' = "sleeping"
            /\ UNCHANGED result
    /\ UNCHANGED <<notTrendsVars, group, cache, err>>

\* time.sleep(...) returns and the loop tries again.
Sleep ==
    /\ pc = "sleeping"
    /\ pc' = "fetching"
    /\ UNCHANGED <<notTrendsVars, trendsVars, err>>

NextTrends ==
    \/ TryCache
    \/ FetchOk
    \/ \E ex \in Exceptions : FetchFails(ex)
    \/ Sleep

SpecTrends == InitTrends /\ [][NextTrends]_vars

\* The loop is sequential code: a request returns or raises, a sleep ends.
SpecTrendsFair == SpecTrends /\ WF_vars(NextTrends)

\* build_and_fetch gave up: it returned after a failed last request.
GaveUp ==
    /\ pc = "returned"
    /\ fetches > 0
    /\ Len(failures) = fetches

\* The exception of the last failed request.
last_failure == failures[Len(failures)]

\* The error field of a placeholder holds a text that is not empty.
TextSet(e) == Len(e.text) > 1 \/ e.text[1] # ""

\* The record is the placeholder of the term: ts and value are None and the
\* error field holds a text.
IsPlaceholder(rec, term) ==
    /\ DOMAIN rec = {"term", "ts", "value", "error"}
    /\ rec.term = term
    /\ rec.ts = None
    /\ rec.value = None
    /\ DOMAIN rec.error = {"text"}

\* At most 6 requests are sent, a seventh is never due, no exception leaves
\* the function, and on giving up the result is one placeholder per term of
\* the group, in the group's order.
Bounded ==
    /\ fetches <= http_attempts
    /\ pc # "returned" => fetches < http_attempts
    /\ attempt = Len(failures)
    /\ err = ""
    /\ GaveUp =>
        /\ Len(result) = Len(group)
        /\ \A i \in 1..Len(group) : IsPlaceholder(result[i], group[i])

\* The error text of every placeholder returned on giving up is set.
ErrorTextSet ==
    GaveUp => \A i \in 1..Len(result) : TextSet(result[i].error)

\* The error text is the text of the last exception when that was not an
\* HTTPError, empty when the exception carries no text, and set otherwise.
ErrorTextOfLastFailure ==
    GaveUp => \A i \in 1..Len(result) :
        IF last_failure.kind = "other"
        THEN result[i].error.text = <<last_failure.text>>
        ELSE TextSet(result[i].error)

\* C19 (as stated): build_and_fetch always returns, after at most 6 requests,
\* and when it gives up it returns exactly one error placeholder per term,
\* with value null and the error text set.
C19_TerminatesWithErrorTextSet ==
    [](Bounded /\ ErrorTextSet) /\ <>(pc = "returned")

\* C19 (amended): build_and_fetch always returns, after at most 6 requests,
\* and when it gives up it returns exactly one error placeholder per term,
\* with value null and as error text the text of the last exception, which
\* is empty when that exception carries none.
C19_TerminatesWithPlaceholders ==
    [](Bounded /\ ErrorTextOfLastFailure) /\ <>(pc = "returned")

\* Five HTTP failures and a last failure of the other kind, without a text:
\* the sixth request was sent and the placeholders of a two-term group came
\* back with an empty error text.
C19_Witness ==
    /\ GaveUp
    /\ fetches = http_attempts
    /\ \E i \in 1..Len(failures) : failures[i].kind = "http"
    /\ last_failure = OtherError("")
    /\ Len(group) = 2
    /\ ~TextSet(result[2].error)

\* C20: when every failure was a non-HTTP error, the request has been sent
\* exactly twice when the placeholders are returned.
C20_NonHttpTwoAttempts ==
    (GaveUp /\ \A i \in 1..Len(failures) : failures[i].kind = "other") => fetches = 2

-----------------------------------------------------------------------------
(* 01_ingest.py: the per-day cache of build_and_fetch across calls *)

\* build_and_fetch is called again for the same group on the same day, by
\* the next run of ingest_trends: its locals start afresh, the cache
\* directory is as the call before left it.
CallAgain ==
    /\ pc = "returned"
    /\ pc' = "called"
    /\ attempt' = 0
    /\ fetches' = 0
    /\ failures' = <<>>
    /\ result' = <<>>
    /\ UNCHANGED <<notTrendsVars, group, cache, err>>

NextCache == NextTrends \/ CallAgain

SpecCache == InitTrends /\ [][NextCache]_vars

\* The cache entry holds no error placeholder.
NoPlaceholderCached ==
    cache.state = "readable" =>
        \A i \in 1..Len(cache.records) :
            /\ "error" \notin DOMAIN cache.records[i]
            /\ cache.records[i].value # None

\* A call that finds a readable entry returns its records at once.
HitReturnsEntry ==
    (pc = "called" /\ cache.state = "readable") =>
        /\ pc' = "returned"
        /\ result' = cache.records
        /\ fetches' = 0
        /\ cache' = cache

\* A request is sent only when the entry is not readable.
FetchOnlyOnMiss ==
    fetches' = fetches + 1 => cache.state # "readable"

\* The entry changes only in the step of a successful request.
ChangesOnlyOnSuccess ==
    cache' # cache =>
        /\ pc = "fetching"
        /\ fetches' = fetches + 1
        /\ failures' = failures
        /\ pc' = "returned"

\* The entry is written only with the records a successful request returns.
WriteOnlyOnSuccess ==
    /\ ChangesOnlyOnSuccess
    /\ cache' # cache => cache' = Cached(result')

\* The entry a successful request leaves holds the records it returns, or
\* cannot be read.
WrittenOrCutOff ==
    /\ ChangesOnlyOnSuccess
    /\ cache' # cache => cache' \in {Cached(result'), Unreadable}

\* C21 (as stated): a readable cache entry is returned without any request
\* being sent, the entry is written only with the result of a successful
\* request, and the error placeholders of giving up are never written to it.
C21_CacheHoldsOnlyGoodData ==
    /\ []NoPlaceholderCached
    /\ [][HitReturnsEntry /\ FetchOnlyOnMiss /\ WriteOnlyOnSuccess]_vars

\* C21 (amended): a readable cache entry is returned without any request
\* being sent; the entry changes only in the step of a successful request,
\* to that request's result or, when the write fails after the file was
\* opened, to an empty or cut-off entry that cannot be read; the error
\* placeholders of giving up are never written to it.
C21_CacheHoldsGoodOrUnreadable ==
    /\ []NoPlaceholderCached
    /\ [][HitReturnsEntry /\ FetchOnlyOnMiss /\ WrittenOrCutOff]_vars

\* A second call for the group <<"t2">> returned, without a request, the
\* records a successful request of an earlier call had written.
C21_Witness ==
    /\ pc = "returned"
    /\ fetches = 0
    /\ group = <<"t2">>
    /\ cache.state = "readable"
    /\ result = cache.records
    /\ Len(result) > 0
    /\ result[1].term = "t2"

-----------------------------------------------------------------------------
(* 03_generate_report.py: md_to_docx, the renderer of the report step *)

\* doc.add_paragraph(text) and doc.add_heading(text, level): the text as one
\* run, no hyperlinks.
ReportBlock(kind, level, text) == Block(kind, level, text, run_if_any(text))

\* The naive numbered-list test: ls[:2].isdigit() and ls[2:4] == ". ", for
\* ls the left-stripped line: exactly two digits, a dot and a space.
report_is_numbered(ls) ==
    /\ Len(ls) >= 4
    /\ IsDigit(ls[1])
    /\ IsDigit(ls[2])
    /\ ls[3] = "."
    /\ ls[4] = " "

\* The block one iteration of the loop adds for line = raw.rstrip().
report_block_of(line) ==
    IF Strip(line) = <<>> THEN ReportBlock("BlankSeparator", 0, <<>>)
    ELSE IF StartsWith(line, <<"#", " ">>) THEN ReportBlock("Heading", 1, Strip(Drop(line, 2)))
    ELSE IF StartsWith(line, <<"#", "#", " ">>) THEN ReportBlock("Heading", 2, Strip(Drop(line, 3)))
    ELSE IF StartsWith(line, <<"#", "#", "#", " ">>) THEN ReportBlock("Heading", 3, Strip(Drop(line, 4)))
    ELSE IF StartsWith(LStrip(line), <<"-", " ">>)
    THEN ReportBlock("BulletListItem", 0, Strip(Drop(LStrip(line), 2)))
    ELSE IF report_is_numbered(LStrip(line))
    THEN ReportBlock("NumberedListItem", 0, Strip(Drop(LStrip(line), 4)))
    ELSE ReportBlock("Paragraph", 0, line)

\* md_to_docx(md_text, out_path) of 03_generate_report.py raises ValueError
\* at the first line whose text doc.add_heading or doc.add_paragraph cannot
\* put into the document.
report_md_to_docx_raises(text) ==
    \E k \in 1..Len(splitlines(text)) :
        add_raises(report_block_of(RStrip(splitlines(text)[k])))

\* md_to_docx(md_text, out_path) of 03_generate_report.py: the blocks of the
\* document it saves, when the loop ends.
report_md_to_docx(text) ==
    [k \in 1..Len(splitlines(text)) |-> report_block_of(RStrip(splitlines(text)[k]))]

\* The lines both renderers are given: those of MdLines and lines with a
\* two-digit and a three-digit number; the texts are made of up to MaxLines
\* of them, as in MdTexts.
ReportLines ==
    MdLines \cup { <<"1", "2", ".", " ", "c">>,
                   <<" ", "1", "2", ".", " ", " ", "c", " ">>,
                   <<"1", "2", "3", ".", " ", "c">> }

TextsOf(lines) ==
    {PyStr(Unlines(ls)) : ls \in SeqsUpTo(lines, MaxLines)}
    \cup {PyStr(Chomp(Unlines(ls))) : ls \in SeqsUpTo(lines, MaxLines)}

-----------------------------------------------------------------------------
(* 04_markdown_to_docx.py: __main__, the converter run from a shell *)

\* RUN_ID = os.getenv("RUN_ID") in the shell the converter is run from: not
\* set (or set to ""), or the RUN_ID of the active run.
EnvRunIds == {"", run_id}

\* resolve_output_dir(): `if RUN_ID` takes an unset and an empty RUN_ID
\* alike.  Paths are written from ROOT, the directory the shell is in.
resolve_output_dir(rid) ==
    IF rid # "" THEN <<"data", "runs", rid, "outputs">> ELSE <<"data", "outputs">>

LATEST_DIR == <<"data", "latest">>

\* The briefs out_dir.glob("weekly_brief_*.md") can find in a directory, in
\* the order of their names.
DatedBriefs == <<"weekly_brief_<date1>.md", "weekly_brief_<date2>.md">>

\* A Markdown file outside the output directories whose name has no suffix,
\* for --md, and a path for --docx.
plain_md == <<"notes", "brief">>
explicit_docx == <<"out", "brief.docx">>

\* path.parent and path.name
parent(path) == SubSeq(path, 1, Len(path) - 1)
name(path) == path[Len(path)]

\* md_path.with_suffix(".docx") for a name with a suffix, f"{md_path.name}.docx"
\* for a name without one, on the names of the Markdown files above.
docx_name(md_name) ==
    CASE md_name = "weekly_brief.md" -> "weekly_brief.docx"
      [] md_name = "weekly_brief_<date1>.md" -> "weekly_brief_<date1>.docx"
      [] md_name = "weekly_brief_<date2>.md" -> "weekly_brief_<date2>.docx"
      [] md_name = "brief" -> "brief.docx"

\* The Markdown files the converter can be given or can find, and the
\* files it can write.
MarkdownPaths ==
    {Append(resolve_output_dir(rid), DatedBriefs[i]) : rid \in EnvRunIds, i \in 1..Len(DatedBriefs)}
    \cup {Append(resolve_output_dir(rid), "weekly_brief.md") : rid \in EnvRunIds}
    \cup {plain_md}
ConverterPaths ==
    MarkdownPaths
    \cup {Append(parent(p), docx_name(name(p))) : p \in MarkdownPaths}
    \cup {explicit_docx, Append(LATEST_DIR, "weekly_brief.docx")}

\* What the converter can find in its output directory (it looks in no
\* other) besides the brief the report step wrote: dated briefs and, under
\* a run's directory, weekly_brief.md.  No script writes them: they are
\* copies of the brief, as is the file without a suffix.
CopiesFor(rid) ==
    ({Append(resolve_output_dir(rid), DatedBriefs[i]) : i \in 1..Len(DatedBriefs)}
     \cup {Append(resolve_output_dir(rid), "weekly_brief.md")}) \ {md_path}

\* The values of --md: not given (<<>>), or one of the Markdown paths.
MdArgs == {<<>>, md_path, latest_output(run_id, "weekly_brief.md"), plain_md}

\* The values of --docx: not given (<<>>), or a path.
DocxArgs == {<<>>, explicit_docx}

\* The converter before parse_args.
Converter(rid) ==
    [RUN_ID |-> rid, docx |-> <<>>, md_path |-> <<>>, docx_path |-> <<>>]

\* The path discover_markdown returns.
Found(path) == [path |-> path]

\* sorted(out_dir.glob("weekly_brief_*.md"))
candidates(files, out_dir) ==
    SelectSeq([i \in 1..Len(DatedBriefs) |-> Append(out_dir, DatedBriefs[i])],
              LAMBDA f : files[f].exists)

\* discover_markdown(out_dir, explicit): the explicit path when it exists;
\* without one the last dated brief of out_dir, else its weekly_brief.md;
\* FileNotFoundError when there is none.
discover_markdown(files, out_dir, explicit) ==
    IF explicit # <<>>
    THEN IF files[explicit].exists THEN Found(explicit) ELSE Raise("FileNotFoundError")
    ELSE IF candidates(files, out_dir) # <<>>
    THEN Found(candidates(files, out_dir)[Len(candidates(files, out_dir))])
    ELSE IF files[Append(out_dir, "weekly_brief.md")].exists
    THEN Found(Append(out_dir, "weekly_brief.md"))
    ELSE Raise("FileNotFoundError")

\* resolve_docx_path(md_path, explicit): the explicit path, else the
\* Markdown path with the suffix .docx.
resolve_docx_path(md, explicit) ==
    IF explicit # <<>> THEN explicit ELSE Append(parent(md), docx_name(name(md)))

\* path.write_bytes(data): the file is written; or it cannot be opened and
\* stays as it was; or the write fails after the open has emptied it.
write_bytes(files, path, rid, outcome) ==
    CASE outcome = "written" -> write(files, path, rid)
      [] outcome = "not_opened" -> files
      [] outcome = "cut_off" -> truncate(files, path, rid)

\* write_latest_docx(doc_path, out_dir, latest_dir): the files afterwards.
\* The document is copied to out_dir/weekly_brief.docx and then to
\* latest_dir/weekly_brief.docx; a write that fails raises OSError and the
\* second copy is not made when the first failed.
write_latest_docx(files, out_dir, latest_dir, rid, latest, shared) ==
    IF latest # "written"
    THEN write_bytes(files, Append(out_dir, "weekly_brief.docx"), rid, latest)
    ELSE write_bytes(write(files, Append(out_dir, "weekly_brief.docx"), rid),
                     Append(latest_dir, "weekly_brief.docx"), rid, shared)

write_latest_docx_raises(latest, shared) == latest # "written" \/ shared # "written"

-----------------------------------------------------------------------------
(* The report step's renderer and the converter on the same brief *)

\* main of 03_generate_report.py has saved the brief md_text as
\* data/outputs/weekly_brief.md and calls md_to_docx(md, docx_path); the
\* converter is then run from a shell on what it finds.  Every Markdown file
\* on disk holds md_text.
InitRenderers ==
    /\ PrepIdle /\ rows = <<>> /\ SlangIdle /\ IngestIdle /\ TrendsIdle
    /\ md_text \in TextsOf(ReportLines)
    /\ line_no = 0
    /\ doc = <<>>
    /\ bullet_mode = FALSE
    /\ report_doc = <<>>
    /\ \E rid \in EnvRunIds :
        /\ converter = Converter(rid)
        /\ \E copies \in SUBSET CopiesFor(rid) :
            fs = [p \in ConverterPaths |->
                    IF p = md_path THEN Written(run_id)
                    ELSE IF p \in copies \cup {plain_md} THEN Written("")
                    ELSE Missing]
    /\ presses = <<>>
    /\ procs = <<>>
    /\ accesses = {}
    /\ started = <<>>
    /\ running = FALSE
    /\ failed = ""
    /\ progress = Progress("Idle", FALSE)
    /\ pc = "loaded"
    /\ err = ""

\* The outcomes of doc.save(out_path): the file is written, or the write
\* raises OSError.
SaveOutcomes == {"saved", "not_saved"}

\* A call md_to_docx(md_text, out_path) of 03_generate_report.py, out_path
\* being data/outputs/weekly_brief.docx: it builds the document line by line
\* and saves it; a text the document cannot hold raises ValueError before
\* anything is saved.
ReportMdToDocx(save) ==
    /\ pc = "loaded"
    /\ IF report_md_to_docx_raises(md_text.s)
       THEN pc' = "raised" /\ err' = "ValueError" /\ UNCHANGED <<report_doc, fs>>
       ELSE IF save = "not_saved"
       THEN pc' = "raised" /\ err' = "OSError" /\ UNCHANGED <<report_doc, fs>>
       ELSE /\ report_doc' = report_md_to_docx(md_text.s)
            /\ fs' = write(fs, docx_path, run_id)
            /\ pc' = "reported"
            /\ UNCHANGED err
    /\ UNCHANGED <<prepVars, rows, slangVars, ingestVars, trendsVars, renderVars, converterVars,
                   presses, procs, accesses, started, running, failed, progress>>

\* __main__ of 04_markdown_to_docx.py up to md_path: parse_args and
\* discover_markdown(OUT_DIR, args.md), which raises FileNotFoundError when
\* it finds no Markdown file.
DiscoverMarkdown(md, docx) ==
    /\ pc = "reported"
    /\ \E found \in {discover_markdown(fs, resolve_output_dir(converter.RUN_ID), md)} :
        IF IsRaise(found)
        THEN pc' = "raised" /\ err' = found.raise /\ UNCHANGED converter
        ELSE /\ converter' = [converter EXCEPT !.docx = docx, !.md_path = found.path]
             /\ pc' = "discovered"
             /\ UNCHANGED err
    /\ UNCHANGED <<prepVars, rows, slangVars, ingestVars, uiVars, trendsVars, renderVars, reportVars>>

\* md_text = md_path.read_text(encoding="utf-8"); doc = md_to_docx(md_text):
\* the converter reads the brief and builds the document, or raises
\* ValueError.
ConvertMdToDocx ==
    /\ pc = "discovered"
    /\ IF md_to_docx_raises(md_text.s)
       THEN pc' = "raised" /\ err' = "ValueError" /\ UNCHANGED doc
       ELSE /\ doc' = md_to_docx(md_text.s)
            /\ pc' = "converted"
            /\ UNCHANGED err
    /\ UNCHANGED <<prepVars, rows, slangVars, ingestVars, uiVars, trendsVars,
                   md_text, line_no, bullet_mode, reportVars, converterVars>>

\* docx_path = resolve_docx_path(md_path, args.docx); doc.save(docx_path)
SaveDocx(save) ==
    /\ pc = "converted"
    /\ converter' = [converter EXCEPT
                        !.docx_path = resolve_docx_path(converter.md_path, converter.docx)]
    /\ IF save = "not_saved"
       THEN pc' = "raised" /\ err' = "OSError" /\ UNCHANGED fs
       ELSE /\ fs' = write(fs, converter'.docx_path, converter.RUN_ID)
            /\ pc' = "saved"
            /\ UNCHANGED err
    /\ UNCHANGED <<prepVars, rows, slangVars, ingestVars, trendsVars, renderVars, reportVars,
                   presses, procs, accesses, started, running, failed, progress>>

\* write_latest_docx(docx_path, OUT_DIR, LATEST_DIR), the last call of
\* __main__: the saved document, which read_bytes finds, is copied to the
\* output directory of the RUN_ID and to data/latest.
WriteLatestDocx(latest, shared) ==
    /\ pc = "saved"
    /\ fs' = write_latest_docx(fs, resolve_output_dir(converter.RUN_ID), LATEST_DIR,
                               converter.RUN_ID, latest, shared)
    /\ IF write_latest_docx_raises(latest, shared)
       THEN pc' = "raised" /\ err' = "OSError"
       ELSE pc' = "written" /\ UNCHANGED err
    /\ UNCHANGED <<prepVars, rows, slangVars, ingestVars, trendsVars, renderVars, reportVars,
                   converterVars, presses, procs, accesses, started, running, failed, progress>>

NextRenderers ==
    \/ \E save \in SaveOutcomes : ReportMdToDocx(save)
    \/ \E md \in MdArgs, docx \in DocxArgs : DiscoverMarkdown(md, docx)
    \/ ConvertMdToDocx
    \/ \E save \in SaveOutcomes : SaveDocx(save)
    \/ \E latest \in WriteOutcomes, shared \in WriteOutcomes : WriteLatestDocx(latest, shared)

SpecRenderers == InitRenderers /\ [][NextRenderers]_vars

\* The kinds, heading levels and texts of the blocks of a document.
Structure(blocks) == [k \in 1..Len(blocks) |-> ShapeOf(blocks[k])]

\* C22: for every Markdown text the two renderers emit the same sequence of
\* block kinds, heading levels and block texts.
C22_RenderersAgree ==
    pc = "converted" => Structure(report_doc) = Structure(doc)

=============================================================================
